---- MODULE Spec2Model ----
(***************************************************************************)
(* RustBridge: Modbus poll loops committing decoded register values to a   *)
(* shared store (tokio RwLock<HashMap>), fanning them out on a tokio       *)
(* broadcast channel, REST handlers reading the store, and the REST write  *)
(* round trip over a bounded mpsc queue with one-shot reply channels.      *)
(*                                                                         *)
(* Option<T> is modelled as a sequence: None = <<>>, Some(x) = <<x>>.      *)
(***************************************************************************)
EXTENDS Integers, Sequences, FiniteSets, TLC

\* ------------------------------------------------------------------ bounds
\* Horizon of the wall clock (chrono::Utc::now() is read as `now`).
MaxClock == 2
\* Horizon of the broadcast channel's tail position: no poll cycle starts
\* once this many updates have been stored in the channel.
MaxPublish == 3
\* Capacity of the broadcast channel, scaled down from BROADCAST_CAPACITY = 1024
\* (src/src/api/mod.rs:26); every formula below is stated for any capacity.
BROADCAST_CAPACITY == 2
\* Depth of the write queue, scaled down from mpsc::channel(100)
\* (src/src/bridge.rs:37).
WRITE_QUEUE_DEPTH == 2
\* Subscribe and unsubscribe frames a WebSocket client sends per connection.
MaxClientFrames == 2

None == <<>>
Some(x) == <<x>>

\* ----------------------------------------------------------- configuration
\* config.devices: one TCP device with two registers, the second one scaled
\* and shifted, and one RTU device.
DeviceConfigs ==
  << [ id |-> "plc-001", connection |-> "tcp",
       registers |->
         << [ name |-> "temperature", address |-> 10, register_type |-> "holding",
              count |-> 1, data_type |-> "u16", unit |-> Some("C"),
              scale |-> None, offset |-> None ],
            [ name |-> "humidity", address |-> 11, register_type |-> "input",
              count |-> 1, data_type |-> "i16", unit |-> None,
              scale |-> Some(10), offset |-> Some(-40) ] >> ],
     [ id |-> "rtu-001", connection |-> "rtu",
       registers |->
         << [ name |-> "pressure", address |-> 20, register_type |-> "holding",
              count |-> 1, data_type |-> "u16", unit |-> Some("bar"),
              scale |-> None, offset |-> None ] >> ] >>

DeviceIds == { DeviceConfigs[i].id : i \in DOMAIN DeviceConfigs }

ConfigOf(d) == CHOOSE c \in { DeviceConfigs[i] : i \in DOMAIN DeviceConfigs } : c.id = d

RegistersOf(d) == ConfigOf(d).registers

RegisterNames == UNION { { RegistersOf(d)[i].name : i \in DOMAIN RegistersOf(d) } : d \in DeviceIds }

\* The 16-bit words a device may answer with.
Words == { 250, 65436 }

\* ------------------------------------------------------------------ decoder
\* 2^16: the modulus of a u16 word, and the weight of the high word.
Pow2_16 == 65536

\* w as i16: two's complement reinterpretation of a 16-bit word.
AsI16(w) == IF w >= 32768 THEN w - Pow2_16 ELSE w

\* (raw[0] as u32) << 16 | raw[1] as u32: high word first.
U32Of(raw) == raw[1] * Pow2_16 + raw[2]

\* The two words taken low word first.
I32OfLowFirst(raw) == AsI16(raw[2]) * Pow2_16 + raw[1]

\* The same 32 bits as i32: the high word carries the sign.
I32Of(raw) == AsI16(raw[1]) * Pow2_16 + raw[2]

\* An empty read decoded as the all-ones word.
FirstOrOnes(raw) == IF Len(raw) >= 1 THEN raw[1] ELSE 65535

FirstOrZero(raw) == IF Len(raw) >= 1 THEN raw[1] ELSE 0

\* An absent scale or offset taken as zero.
OptOrZero(opt, dflt) == IF opt = None THEN 0 ELSE opt[1]

\* config.scale.unwrap_or(1.0), config.offset.unwrap_or(0.0)
OptOr(opt, dflt) == IF opt = None THEN dflt ELSE opt[1]

\* f32::from_bits is kept symbolic: the value is identified by its bit pattern.
F32FromBits(raw) == U32Of(raw)

convert_value(raw, config) ==
  LET raw_value ==
        CASE config.data_type = "u16" -> FirstOrZero(raw)
          [] config.data_type = "i16" -> AsI16(FirstOrZero(raw))
          [] config.data_type = "u32" -> IF Len(raw) >= 2 THEN U32Of(raw) ELSE 0
          [] config.data_type = "i32" -> IF Len(raw) >= 2 THEN I32Of(raw) ELSE 0
          [] config.data_type = "f32" -> IF Len(raw) >= 2 THEN F32FromBits(raw) ELSE 0
          [] config.data_type = "bool" -> IF FirstOrZero(raw) # 0 THEN 1 ELSE 0
  IN raw_value * OptOr(config.scale, 1) + OptOr(config.offset, 0)

\* Words at the edges of the u16 and i16 ranges.
DecodeWords == { 0, 1, 250, 32767, 32768, 65436, 65535 }

DataTypes == { "u16", "i16", "u32", "i32", "f32", "bool" }

\* --------------------------------------------------------------- API keys
\* Longest request path drawn, in characters.
MaxPathLen == 3

\* request.uri().path(): a sequence of characters starting with "/".
Paths ==
  { p \in UNION { [ 1..n -> { "/", "h", "p", "*" } ] : n \in 1..MaxPathLen } : p[1] = "/" }

\* AuthConfig.exclude_paths: exact patterns and patterns with a trailing *.
ExcludePaths ==
  { << >>,
    << << "/", "h" >> >>,
    << << "/", "p", "/", "*" >> >>,
    << << "/", "h" >>, << "/", "p", "/", "*" >> >>,
    << << "/", "h", "*" >> >>,
    << << "/", "*", "h" >>, << "*" >> >> }

\* AuthConfig.api_keys.
ApiKeys == { << >>, << "key-1" >>, << "key-1", "key-2" >> }

AuthConfigs ==
  [ enabled : BOOLEAN, api_keys : ApiKeys, exclude_paths : ExcludePaths ]

\* A HeaderValue: its bytes, and whether all of them are visible ASCII.
HeaderValues ==
  { [ bytes |-> "key-1", visible_ascii |-> TRUE ],
    [ bytes |-> "key-2", visible_ascii |-> TRUE ],
    [ bytes |-> "wrong-key", visible_ascii |-> TRUE ],
    [ bytes |-> "\\xff", visible_ascii |-> FALSE ] }

\* headers().get("X-API-Key"): absent or the header's value.
Requests == [ path : Paths, x_api_key : { None } \cup { Some(v) : v \in HeaderValues } ]

\* HeaderValue::to_str: the text, unless a byte is outside visible ASCII.
to_str(v) == IF v.visible_ascii THEN Some(v.bytes) ELSE None

is_valid_key(config, key) ==
  \E i \in DOMAIN config.api_keys : config.api_keys[i] = key

\* Exclusion by exact match only.
is_excluded_path_exact(config, path) ==
  \E i \in DOMAIN config.exclude_paths : path = config.exclude_paths[i]

is_excluded_path(config, path) ==
  \E i \in DOMAIN config.exclude_paths :
    LET p == config.exclude_paths[i]
    IN IF Len(p) >= 1 /\ p[Len(p)] = "*"
         THEN LET prefix == SubSeq(p, 1, Len(p) - 1)
              IN Len(prefix) <= Len(path) /\ SubSeq(path, 1, Len(prefix)) = prefix
         ELSE path = p

\* The middleware's own answer: 401 with an AuthError body.
AuthError(message) ==
  [ next |-> FALSE, status |-> 401, error |-> "unauthorized", message |-> message ]

\* next.run(request): the handler ran and answered with its own status.
NextRun(status) == [ next |-> TRUE, status |-> status, error |-> "", message |-> "" ]

\* The handler behind the middleware answers with a status of its own.
NextRunAll == { NextRun(st) : st \in { 200, 404 } }

\* api_key_auth: the responses the middleware can return for a request.
api_key_auth(config, request) ==
  IF ~ config.enabled
    THEN NextRunAll
    ELSE IF is_excluded_path(config, request.path)
      THEN NextRunAll
      ELSE LET api_key == IF request.x_api_key = None THEN None
                          ELSE to_str(request.x_api_key[1])
           IN IF api_key # None /\ is_valid_key(config, api_key[1])
                THEN NextRunAll
                ELSE IF api_key # None
                  THEN { AuthError("Invalid API key") }
                  ELSE { AuthError("Missing X-API-Key header") }

NoCall == [ pc |-> "none" ]

\* ------------------------------------------------------------------- state
VARIABLES
  now,          \* wall clock
  store,        \* RegisterStore: device id -> register name -> RegisterValue
  lockReaders,  \* REST handlers holding the store's read lock
  context,      \* ModbusClient.context per device: None | Some(transport)
  pollPc,       \* position of each device's polling task
  regIdx,       \* index of the register the polling task is at
  regValue,     \* reg_value built from the last successful read, Option
  lastRead,     \* result of the task's last read_registers call, Option
  cycleSent,    \* history: register_name of each update sent in this cycle
  busLog,       \* every update stored in the broadcast channel, oldest first
  receivers,    \* broadcast receivers: id -> next, the position of its cursor
  rest,         \* REST read requests in flight: id -> [pc, device_id, register_name, resp]
  cycleOk,      \* history: register indices whose read succeeded in this cycle
  lastCommit,   \* history: <<device, register>> -> the RegisterValue last committed
  writes,       \* REST write requests: id -> [pc, device_id, register_name, value, resp]
  writeQueue,   \* the mpsc channel of WriteRequest, oldest first
  writeRxOpen,  \* whether write_rx, the queue's receiving end, is alive
  replies,      \* one-shot reply channel of each request: [tx, rx, value]
  deviceWrites, \* writes executed on devices by ModbusClient::write_register
  ws,           \* WebSocket sessions: id -> [pc, subscribed_devices] and the
                \* history [start, got]: cursor at subscription, events received
  auth,         \* a request at the API-key middleware: [pc, config, request, resp]
  decode        \* a call of convert_value: [pc, config, raw, value]

vars == << now, store, lockReaders, context, pollPc, regIdx, regValue, lastRead,
           cycleSent, busLog, receivers, rest, cycleOk, lastCommit,
           writes, writeQueue, writeRxOpen, replies, deviceWrites, ws,
           auth, decode >>

callVars == << auth, decode >>

writeVars == << writes, writeQueue, writeRxOpen, replies, deviceWrites >>

pollVars == << context, pollPc, regIdx, regValue, lastRead, cycleSent, cycleOk >>

EmptyMap == [ x \in {} |-> None ]

\* store.entry(device_id).or_insert_with(HashMap::new).insert(name, reg_value)
StoreInsert(st, d, rv) ==
  LET device_map == IF d \in DOMAIN st THEN st[d] ELSE EmptyMap
  IN  (d :> ((rv.name :> rv) @@ device_map)) @@ st

\* timestamp.to_rfc3339(): the instant rendered as text (injective).
ToRfc3339(t) == << "rfc3339", t >>

RegisterUpdateOf(d, rv) ==
  [ device_id |-> d, register_name |-> rv.name, value |-> rv.value,
    raw |-> rv.raw, unit |-> rv.unit, timestamp |-> ToRfc3339(rv.timestamp) ]

\* WebSocket client connections.
WsIds == { "ws1", "ws2" }

\* REST read requests (one HTTP request per call).
RestIds == { "get1" }

\* REST write requests.
WriteIds == { "post1", "post2", "post3" }

\* Requests put on the write queue by another holder of ApiState.write_tx.
DirectIds == { "direct1" }

\* Every request that owns a one-shot reply channel.
ChannelIds == WriteIds \cup DirectIds

\* A WebSocket connection before its handler runs; subscribed_devices: None
\* = all devices. frames_in, out: history of the client frames handled and
\* of the update frames handed to the socket.
\* last_in, frames: history of the last client frame handled and of every
\* frame handed to the socket, in order.
NewSession ==
  [ pc |-> "new", subscribed_devices |-> None, start |-> 0, got |-> << >>,
    frames_in |-> 0, out |-> << >>, last_in |-> None, frames |-> << >> ]

\* A response: HTTP status; ApiError's error, code and details; the JSON body
\* of a 200.
NoResp == [ status |-> 0, error |-> "", code |-> 0, details |-> None, body |-> None ]
Partial(body) ==
  [ status |-> 0, error |-> "", code |-> 0, details |-> None, body |-> Some(body) ]
OkJson(body) ==
  [ status |-> 200, error |-> "", code |-> 0, details |-> None, body |-> Some(body) ]
IdleWrite == [ pc |-> "idle", device_id |-> "", register_name |-> "", value |-> 0,
               resp |-> NoResp ]
\* A one-shot channel: both ends, and the value sent if any.
NoChannel == [ tx |-> "none", rx |-> "none", value |-> None ]
IdleRest == [ pc |-> "idle", device_id |-> "", register_name |-> "", resp |-> NoResp ]

Init ==
  /\ now = 0
  /\ store = EmptyMap
  /\ lockReaders = {}
  /\ context = [ d \in DeviceIds |-> None ]
  /\ pollPc = [ d \in DeviceIds |-> "connect" ]
  /\ regIdx = [ d \in DeviceIds |-> 1 ]
  /\ regValue = [ d \in DeviceIds |-> None ]
  /\ lastRead = [ d \in DeviceIds |-> None ]
  /\ cycleSent = [ d \in DeviceIds |-> << >> ]
  /\ busLog = << >>
  /\ receivers = EmptyMap
  /\ rest = [ h \in RestIds |-> IdleRest ]
  /\ cycleOk = [ d \in DeviceIds |-> {} ]
  /\ lastCommit = EmptyMap
  /\ writes = [ h \in WriteIds |-> IdleWrite ]
  /\ writeQueue = << >>
  /\ writeRxOpen = TRUE
  /\ replies = [ h \in ChannelIds |-> NoChannel ]
  /\ deviceWrites = {}
  /\ ws = [ s \in WsIds |-> NewSession ]
  /\ auth = NoCall
  /\ decode = NoCall

\* The system clock advances.
ClockTick ==
  /\ now < MaxClock
  /\ now' = now + 1
  /\ UNCHANGED << callVars, store, lockReaders, pollVars, busLog, receivers, rest, lastCommit, writeVars, ws >>

\* -------------------------------------------------------------- poll loop
\* ModbusClient::new: a TCP connect succeeds or fails; RTU yields no context.
ClientNew(d) ==
  IF ConfigOf(d).connection = "tcp"
    THEN { [ ok |-> TRUE, context |-> Some("tcp") ], [ ok |-> FALSE, context |-> None ] }
    ELSE { [ ok |-> TRUE, context |-> None ] }

\* An error of one polling task that ends every polling task.
OnPollingErrorAbortAll(pc, d) == [ e \in DOMAIN pc |-> "ended" ]

\* tokio::spawn(async move { if let Err(e) = start_polling_with_broadcast(..)
\* .await { error!(..) } }): the error ends that device's task and is logged.
OnPollingError(pc, d) == [ pc EXCEPT ![d] = "ended" ]

\* let mut client = ModbusClient::new(&config).await?;
PollConnect(d) ==
  /\ pollPc[d] = "connect"
  /\ \E r \in ClientNew(d) :
       /\ context' = [ context EXCEPT ![d] = r.context ]
       /\ pollPc' = IF r.ok THEN [ pollPc EXCEPT ![d] = "tick" ] ELSE OnPollingError(pollPc, d)
  /\ UNCHANGED << callVars, now, store, lockReaders, regIdx, regValue, lastRead, cycleSent,
                  cycleOk, busLog, receivers, rest, lastCommit, writeVars, ws >>

\* ticker.tick().await, then the for loop starts at the first register.
PollTick(d) ==
  /\ pollPc[d] = "tick"
  /\ Len(busLog) + Len(RegistersOf(d)) <= MaxPublish
  /\ pollPc' = [ pollPc EXCEPT ![d] = IF RegistersOf(d) = << >> THEN "tick" ELSE "read" ]
  /\ regIdx' = [ regIdx EXCEPT ![d] = 1 ]
  /\ cycleSent' = [ cycleSent EXCEPT ![d] = << >> ]
  /\ cycleOk' = [ cycleOk EXCEPT ![d] = {} ]
  /\ UNCHANGED << callVars, now, store, lockReaders, context, regValue, lastRead, busLog, receivers,
                  rest, lastCommit, writeVars, ws >>

\* The words a device may return for a register: `count` words, or `count`
\* bits mapped true -> 1, false -> 0 for coils and discrete inputs.
ReadWords(register) ==
  IF register.register_type \in { "coil", "discrete" }
    THEN [ 1..register.count -> { 0, 1 } ]
    ELSE [ 1..register.count -> Words ]

OkRead(raw) == [ ok |-> TRUE, raw |-> raw, err |-> "" ]
ErrRead(e) == [ ok |-> FALSE, raw |-> << >>, err |-> e ]

\* ModbusClient::read_registers: no context is an error; otherwise the peer
\* answers with words, with a Modbus exception, or the transport fails.
ReadRegisters(d, register) ==
  IF context[d] = None
    THEN { ErrRead("No connection available") }
    ELSE { OkRead(raw) : raw \in ReadWords(register) }
           \cup { ErrRead("Modbus error: exception"), ErrRead("Modbus error: transport") }

\* A reversed iteration of the register list.
VisitIndexReversed(d, k) == Len(RegistersOf(d)) + 1 - k

\* for register in &config.registers: the k-th iteration visits the k-th entry.
VisitIndex(d, k) == k

CurrentRegister(d) == RegistersOf(d)[VisitIndex(d, regIdx[d])]

\* A loop that leaves the cycle after its current register.
NextPcEndCycle(d) == "tick"

\* The for loop moves to the next register, or the cycle ends.
NextPc(d) == IF regIdx[d] < Len(RegistersOf(d)) THEN "read" ELSE "tick"
NextIdx(d) == IF regIdx[d] < Len(RegistersOf(d)) THEN regIdx[d] + 1 ELSE 1

\* An Err arm that evicts the register's entry from the store.
OnReadErrorEvict(st, d, register) ==
  IF d \in DOMAIN st
    THEN [ st EXCEPT ![d] = [ n \in (DOMAIN st[d]) \ { register.name } |-> st[d][n] ] ]
    ELSE st

\* The Err(e) arm: read_metrics.failure and tracing::error!, nothing else.
OnReadError(st, d, register) == st

\* A loop that broadcasts the value before storing it.
AfterReadPublishFirst == "publish"

\* "Store the value" comes first, "Broadcast to WebSocket clients" second.
AfterRead == "commit"

\* A clock that runs backwards.
UtcNowCountdown == MaxClock - now

\* chrono::Utc::now(): the instant at which reg_value is built.
UtcNow == now

\* match client.read_registers(register).await: Ok builds reg_value, Err logs.
PollRead(d) ==
  /\ pollPc[d] = "read"
  /\ LET register == CurrentRegister(d) IN
     \E res \in ReadRegisters(d, register) :
       /\ lastRead' = [ lastRead EXCEPT ![d] = Some(res.err) ]
       /\ IF res.ok
            THEN /\ regValue' = [ regValue EXCEPT ![d] =
                       Some([ name |-> register.name, raw |-> res.raw,
                              value |-> convert_value(res.raw, register),
                              unit |-> register.unit, timestamp |-> UtcNow ]) ]
                 /\ pollPc' = [ pollPc EXCEPT ![d] = AfterRead ]
                 /\ cycleOk' = [ cycleOk EXCEPT ![d] = @ \cup { VisitIndex(d, regIdx[d]) } ]
                 /\ UNCHANGED << regIdx, store >>
            ELSE /\ pollPc' = [ pollPc EXCEPT ![d] = NextPc(d) ]
                 /\ regIdx' = [ regIdx EXCEPT ![d] = NextIdx(d) ]
                 /\ store' = OnReadError(store, d, register)
                 /\ UNCHANGED << regValue, cycleOk >>
  /\ UNCHANGED << callVars, now, lockReaders, context, cycleSent, busLog, receivers, rest, lastCommit, writeVars, ws >>

\* A write lock granted while readers still hold the lock.
CanWriteLockIgnoringReaders == TRUE

\* store.write().await is granted when no reader holds the lock.
CanWriteLock == lockReaders = {}

\* { let mut store = store.write().await; ... device_map.insert(...) }
PollCommit(d) ==
  /\ pollPc[d] = "commit"
  /\ CanWriteLock
  /\ store' = StoreInsert(store, d, regValue[d][1])
  /\ lastCommit' = (<< d, regValue[d][1].name >> :> regValue[d][1]) @@ lastCommit
  /\ pollPc' = [ pollPc EXCEPT ![d] = "publish" ]
  /\ UNCHANGED << callVars, now, lockReaders, context, regIdx, regValue, lastRead, cycleSent,
                  cycleOk, busLog, receivers, rest, writeVars, ws >>

\* A send that waits until every receiver has room (a bounded queue).
BusSendReadyBounded ==
  \A r \in DOMAIN receivers : Len(busLog) - receivers[r] < BROADCAST_CAPACITY

\* broadcast::Sender::send is not async: it is ready whatever the receivers do.
BusSendReady == TRUE

\* broadcast::Sender::send: with no receiver the value is returned in Err and
\* not stored; otherwise it is stored at the tail. It never waits.
BusSend(log, update) == IF DOMAIN receivers = {} THEN log ELSE Append(log, update)

\* let _ = broadcaster.send(update); then on to the next register.
PollPublish(d) ==
  /\ pollPc[d] = "publish"
  /\ BusSendReady
  /\ busLog' = BusSend(busLog, RegisterUpdateOf(d, regValue[d][1]))
  /\ cycleSent' = [ cycleSent EXCEPT ![d] =
                      Append(@, RegisterUpdateOf(d, regValue[d][1]).register_name) ]
  /\ regValue' = [ regValue EXCEPT ![d] = None ]
  /\ pollPc' = [ pollPc EXCEPT ![d] = NextPc(d) ]
  /\ regIdx' = [ regIdx EXCEPT ![d] = NextIdx(d) ]
  /\ UNCHANGED << callVars, now, store, lockReaders, context, lastRead, cycleOk, receivers, rest,
                  lastCommit, writeVars, ws >>

Poll(d) == PollConnect(d) \/ PollTick(d) \/ PollRead(d) \/ PollCommit(d) \/ PollPublish(d)

\* The loop of a task whose client is connected: tick, read, commit, publish.
PollCycle(d) == PollTick(d) \/ PollRead(d) \/ PollCommit(d) \/ PollPublish(d)

\* ------------------------------------------------------- REST: get_register
\* The (device, register) paths requested: known and unknown ones.
RestTargets ==
  { << "plc-001", "temperature" >>, << "plc-001", "nope" >>, << "nope", "temperature" >> }

\* store.read().await is granted at once: a writer holds the lock only within
\* the single step PollCommit.
GetStart(h) ==
  /\ rest[h].pc = "idle"
  /\ \E t \in RestTargets :
       rest' = [ rest EXCEPT ![h] = [ pc |-> "lookup", device_id |-> t[1],
                                     register_name |-> t[2], resp |-> NoResp ] ]
  /\ lockReaders' = lockReaders \cup { h }
  /\ UNCHANGED << callVars, now, store, pollVars, busLog, receivers, lastCommit, writeVars, ws >>

\* ApiError::new / with_details: (code, Json { error, code: code.as_u16(), details }).
ApiError(code, msg) ==
  [ status |-> code, error |-> msg, code |-> code, details |-> None, body |-> None ]
ApiErrorWithDetails(code, msg, details) ==
  [ status |-> code, error |-> msg, code |-> code, details |-> Some(details), body |-> None ]

\* store.get(&device_id) / registers.get(&register_name), then the first
\* fields of RegisterResponse are cloned: name, value, raw.
GetLookup(h) ==
  /\ rest[h].pc = "lookup"
  /\ LET d == rest[h].device_id
         r == rest[h].register_name
     IN  rest' = [ rest EXCEPT ![h] =
           IF d \notin DOMAIN store
             THEN [ @ EXCEPT !.pc = "respond", !.resp = ApiError(404, "Device not found") ]
           ELSE IF r \notin DOMAIN store[d]
             THEN [ @ EXCEPT !.pc = "respond", !.resp = ApiError(404, "Register not found") ]
           ELSE [ @ EXCEPT !.pc = "copy",
                           !.resp = Partial([ name |-> store[d][r].name,
                                              value |-> store[d][r].value,
                                              raw |-> store[d][r].raw,
                                              unit |-> None,
                                              timestamp |-> None ]) ] ]
  /\ UNCHANGED << callVars, now, store, lockReaders, pollVars, busLog, receivers, lastCommit, writeVars, ws >>

\* The remaining fields are cloned under the same guard: unit, timestamp.
GetCopy(h) ==
  /\ rest[h].pc = "copy"
  /\ LET reg == store[rest[h].device_id][rest[h].register_name]
     IN  rest' = [ rest EXCEPT ![h] =
           [ @ EXCEPT !.pc = "respond",
                      !.resp = OkJson([ rest[h].resp.body[1] EXCEPT
                                          !.unit = reg.unit,
                                          !.timestamp = ToRfc3339(reg.timestamp) ]) ] ]
  /\ UNCHANGED << callVars, now, store, lockReaders, pollVars, busLog, receivers, lastCommit, writeVars, ws >>

\* The handler returns: the read guard is dropped and the response goes out.
GetReturn(h) ==
  /\ rest[h].pc = "respond"
  /\ rest' = [ rest EXCEPT ![h] = IdleRest ]
  /\ lockReaders' = lockReaders \ { h }
  /\ UNCHANGED << callVars, now, store, pollVars, busLog, receivers, lastCommit, writeVars, ws >>

GetRegister(h) == GetStart(h) \/ GetLookup(h) \/ GetCopy(h) \/ GetReturn(h)

\* get_register as a function of the store: 404 or the RegisterResponse.
RegisterResponseOf(reg) ==
  [ name |-> reg.name, value |-> reg.value, raw |-> reg.raw, unit |-> reg.unit,
    timestamp |-> ToRfc3339(reg.timestamp) ]

GetRegisterOf(st, d, r) ==
  IF d \notin DOMAIN st THEN ApiError(404, "Device not found")
  ELSE IF r \notin DOMAIN st[d] THEN ApiError(404, "Register not found")
  ELSE OkJson(RegisterResponseOf(st[d][r]))

\* ------------------------------------------- REST: list_devices, get_device
\* The orders in which a HashMap may iterate over the keys S.
Orders(S) == { f \in [ 1..Cardinality(S) -> S ] : \A x \in S : \E i \in DOMAIN f : f[i] = x }

\* For each device of the store, an iteration order of its register map.
ValueOrders(st) ==
  { f \in [ DOMAIN st -> UNION { Orders(DOMAIN st[d]) : d \in DOMAIN st } ] :
      \A d \in DOMAIN st : f[d] \in Orders(DOMAIN st[d]) }

\* registers.values() in the iteration order ord.
MapValues(registers, ord) == [ i \in DOMAIN ord |-> registers[ord[i]] ]

RECURSIVE MaxFrom(_, _)
MaxFrom(ts, acc) ==
  IF ts = << >> THEN acc
  ELSE MaxFrom(Tail(ts), IF Head(ts) >= acc THEN Head(ts) ELSE acc)

\* An iterator's minimum.
IterMin(ts) ==
  IF ts = << >> THEN None
  ELSE Some(CHOOSE t \in { ts[i] : i \in DOMAIN ts } : \A i \in DOMAIN ts : t <= ts[i])

\* Iterator::max(): None for an empty iterator, else the greatest element.
IterMax(ts) == IF ts = << >> THEN None ELSE Some(MaxFrom(Tail(ts), Head(ts)))

\* Option::map(|t| t.to_rfc3339())
MapRfc3339(opt) == IF opt = None THEN None ELSE Some(ToRfc3339(opt[1]))

\* The DeviceSummary list_devices builds for one (id, registers) entry.
DeviceSummaryOf(id, registers, ord) ==
  LET values == MapValues(registers, ord)
  IN  [ id |-> id,
        register_count |-> Cardinality(DOMAIN registers),
        last_update |-> MapRfc3339(IterMax([ i \in DOMAIN values |-> values[i].timestamp ])) ]

\* list_devices as a function of the store and of the maps' iteration orders.
list_devices(st, order, vorder) ==
  LET devices == [ i \in DOMAIN order |-> DeviceSummaryOf(order[i], st[order[i]], vorder[order[i]]) ]
  IN  OkJson([ devices |-> devices, count |-> Len(devices) ])

\* A get_device that answers for every configured device.
get_device_configured(st, device_id, ord) ==
  IF device_id \notin DOMAIN st
    THEN IF device_id \in DeviceIds
           THEN OkJson([ id |-> device_id, registers |-> << >>, register_count |-> 0 ])
           ELSE ApiError(404, "Device not found")
  ELSE LET registers == [ i \in DOMAIN ord |-> RegisterResponseOf(st[device_id][ord[i]]) ]
       IN  OkJson([ id |-> device_id, registers |-> registers,
                    register_count |-> Len(registers) ])

\* get_device as a function of the store and of the map's iteration order.
get_device(st, device_id, ord) ==
  IF device_id \notin DOMAIN st THEN ApiError(404, "Device not found")
  ELSE LET registers == [ i \in DOMAIN ord |-> RegisterResponseOf(st[device_id][ord[i]]) ]
       IN  OkJson([ id |-> device_id, registers |-> registers,
                    register_count |-> Len(registers) ])

\* The iteration orders get_device may meet for device_id.
DeviceOrders(st, device_id) ==
  IF device_id \in DOMAIN st THEN Orders(DOMAIN st[device_id]) ELSE { << >> }

\* The device ids asked for: stored, configured and unknown ones.
DeviceTargets == { "plc-001", "sensor-001", "rtu-001", "nope" }

\* GET /api/devices: the whole handler runs under one read guard.
ListDevices(h) ==
  /\ rest[h].pc = "idle"
  /\ \E order \in Orders(DOMAIN store), vorder \in ValueOrders(store) :
       rest' = [ rest EXCEPT ![h] = [ pc |-> "respond", device_id |-> "", register_name |-> "",
                                     resp |-> list_devices(store, order, vorder) ] ]
  /\ lockReaders' = lockReaders \cup { h }
  /\ UNCHANGED << callVars, now, store, pollVars, busLog, receivers, lastCommit, writeVars, ws >>

\* GET /api/devices/{id}: the whole handler runs under one read guard.
GetDevice(h) ==
  /\ rest[h].pc = "idle"
  /\ \E d \in DeviceTargets :
       \E ord \in DeviceOrders(store, d) :
         rest' = [ rest EXCEPT ![h] = [ pc |-> "respond", device_id |-> d, register_name |-> "",
                                       resp |-> get_device(store, d, ord) ] ]
  /\ lockReaders' = lockReaders \cup { h }
  /\ UNCHANGED << callVars, now, store, pollVars, busLog, receivers, lastCommit, writeVars, ws >>

\* --------------------------------------------------- Update Bus receivers
\* update_tx.subscribe(): a receiver that starts at the channel's tail.
NewReceiver == Len(busLog)

Lagged(n) == [ kind |-> "lagged", n |-> n, pos |-> 0, update |-> None ]
Received(pos, u) == [ kind |-> "msg", n |-> 0, pos |-> pos, update |-> Some(u) ]

\* A channel with one shared backlog: a receiver is reported Lagged as soon as
\* any receiver has fallen more than the capacity behind.
BusRecvShared(log, next) ==
  IF \E r \in DOMAIN receivers : Len(log) - receivers[r] > BROADCAST_CAPACITY
    THEN Lagged(1)
    ELSE Received(next + 1, log[next + 1])

\* broadcast::Receiver::recv on a non-empty backlog: Lagged(missed) when more
\* than the capacity behind, else the next update in order.
BusRecv(log, next) ==
  IF Len(log) - next > BROADCAST_CAPACITY
    THEN Lagged(Len(log) - BROADCAST_CAPACITY - next)
    ELSE Received(next + 1, log[next + 1])

\* The receiver's cursor after a receive: past the update, or at the oldest
\* update the channel still holds.
NextAfter(log, next, ev) ==
  IF ev.kind = "lagged" THEN next + ev.n ELSE ev.pos

\* A receiver that outlives its session.
DropReceiverLeaked(s) == receivers

\* Dropping a receiver (the session's update_rx goes out of scope).
DropReceiver(s) == [ r \in (DOMAIN receivers) \ { s } |-> receivers[r] ]

\* A session that ends when its receiver reports Lagged.
AfterLaggedBreak == "ended"

\* Err(RecvError::Lagged(n)) => warn!(...): the loop goes on.
AfterLagged == "running"

\* A filter that takes an empty device list for "all devices".
ShouldSendEmptyIsAll(subscribed_devices, device_id) ==
  IF subscribed_devices = None THEN TRUE
  ELSE IF subscribed_devices[1] = << >> THEN TRUE
  ELSE \E i \in DOMAIN subscribed_devices[1] : subscribed_devices[1][i] = device_id

\* let should_send = match &subscribed_devices { ... }
ShouldSend(subscribed_devices, device_id) ==
  IF subscribed_devices = None THEN TRUE
  ELSE IF subscribed_devices[1] = << >> THEN FALSE
  ELSE \E i \in DOMAIN subscribed_devices[1] : subscribed_devices[1][i] = device_id

\* The frames the server builds: WsMessage::Connected, Update, Error.
ConnectedFrame ==
  [ type |-> "connected", message |-> << "RustBridge WebSocket v", "CARGO_PKG_VERSION" >> ]
UpdateFrame == [ type |-> "update", message |-> << >> ]
ErrorFrame == [ type |-> "error", message |-> << "Invalid message format: ", "e" >> ]

\* A handler that sends nothing on open.
OnOpenSilent == << >>

\* let connected_msg = WsMessage::Connected { .. }; sender.send(..) on open.
OnOpen == << ConnectedFrame >>

\* handle_socket up to the loop: the connected frame is sent (or the send
\* fails and the handler returns), then state.subscribe().
WsOpen(s) ==
  /\ ws[s].pc = "new"
  /\ \E sent \in BOOLEAN :
       IF sent
         THEN /\ ws' = [ ws EXCEPT ![s].pc = "running", ![s].start = NewReceiver,
                                   ![s].frames = @ \o OnOpen ]
              /\ receivers' = (s :> NewReceiver) @@ receivers
         ELSE /\ ws' = [ ws EXCEPT ![s].pc = "ended", ![s].frames = @ \o OnOpen ]
              /\ UNCHANGED receivers
  /\ UNCHANGED << callVars, now, store, lockReaders, pollVars, busLog, rest, lastCommit, writeVars >>

\* The select! arm update = update_rx.recv(): an update is filtered and sent
\* to the client (a failed send breaks the loop); Lagged is logged.
WsBusRecv(s) ==
  /\ ws[s].pc = "running"
  /\ receivers[s] < Len(busLog)
  /\ LET ev == BusRecv(busLog, receivers[s])
         after == [ receivers EXCEPT ![s] = NextAfter(busLog, receivers[s], ev) ]
     IN  IF ev.kind = "lagged"
           THEN /\ ws' = [ ws EXCEPT ![s].pc = AfterLagged, ![s].got = Append(@, ev) ]
                /\ receivers' = IF AfterLagged = "running" THEN after ELSE DropReceiver(s)
           ELSE IF ~ShouldSend(ws[s].subscribed_devices, ev.update[1].device_id)
                  THEN /\ ws' = [ ws EXCEPT ![s].got = Append(@, ev) ]
                       /\ receivers' = after
                  ELSE \E sent \in BOOLEAN :
                         IF sent
                           THEN /\ ws' = [ ws EXCEPT ![s].got = Append(@, ev),
                                                     ![s].out = Append(@, ev.update[1]),
                                                     ![s].frames = Append(@, UpdateFrame) ]
                                /\ receivers' = after
                           ELSE /\ ws' = [ ws EXCEPT ![s].pc = "ended",
                                                     ![s].got = Append(@, ev),
                                                     ![s].out = Append(@, ev.update[1]),
                                                     ![s].frames = Append(@, UpdateFrame) ]
                                /\ receivers' = DropReceiver(s)
  /\ UNCHANGED << callVars, now, store, lockReaders, pollVars, busLog, rest, lastCommit, writeVars >>

\* The select! arm msg = receiver.next(): Close, a transport error or the end
\* of the stream breaks the loop; update_rx is dropped with the session.
WsClose(s) ==
  /\ ws[s].pc = "running"
  /\ ws' = [ ws EXCEPT ![s].pc = "ended" ]
  /\ receivers' = DropReceiver(s)
  /\ UNCHANGED << callVars, now, store, lockReaders, pollVars, busLog, rest, lastCommit, writeVars >>

\* The filters a client frame can set: subscribe with devices: null, an
\* empty list or a list of ids, and unsubscribe (Some(vec![])).
ClientFrames ==
  { [ type |-> "subscribe", devices |-> None ],
    [ type |-> "subscribe", devices |-> Some(<< >>) ],
    [ type |-> "subscribe", devices |-> Some(<< "plc-001" >>) ],
    [ type |-> "subscribe", devices |-> Some(<< "rtu-001" >>) ],
    [ type |-> "unsubscribe", devices |-> None ] }

\* A subscribe without devices that subscribes to nothing.
FilterAfterNullIsEmpty(frame) ==
  IF frame.type = "subscribe"
    THEN IF frame.devices = None THEN Some(<< >>) ELSE frame.devices
    ELSE Some(<< >>)

\* An unsubscribe that resets the filter to all devices.
FilterAfterUnsubscribeAll(frame) ==
  IF frame.type = "subscribe" THEN frame.devices ELSE None

\* Ok(WsMessage::Subscribe { devices }) => subscribed_devices = devices.clone();
\* Ok(WsMessage::Unsubscribe) => subscribed_devices = Some(vec![]).
FilterAfter(frame) ==
  IF frame.type = "subscribe" THEN frame.devices ELSE Some(<< >>)

\* The select! arm msg = receiver.next() with a subscribe or unsubscribe frame.
WsClientFrame(s) ==
  /\ ws[s].pc = "running"
  /\ ws[s].frames_in < MaxClientFrames
  /\ \E frame \in ClientFrames :
       ws' = [ ws EXCEPT ![s].subscribed_devices = FilterAfter(frame),
                         ![s].frames_in = @ + 1,
                         ![s].last_in = Some(frame) ]
  /\ UNCHANGED << callVars, now, store, lockReaders, pollVars, busLog, receivers, rest, lastCommit,
                  writeVars >>

\* Text frames serde_json::from_str::<WsMessage> rejects: malformed JSON and
\* an unknown "type" tag.
InvalidFrames ==
  { [ type |-> "malformed", devices |-> None ], [ type |-> "unknown", devices |-> None ] }

\* A session that ends on an invalid client frame.
AfterInvalidBreak == "ended"

\* The Err(e) arm has no break: the loop goes on.
AfterInvalid == "running"

\* Err(e) => warn!, an Error frame is built and sent with the result of the
\* send discarded (let _ = sender.send(..).await).
WsInvalidFrame(s) ==
  /\ ws[s].pc = "running"
  /\ ws[s].frames_in < MaxClientFrames
  /\ \E frame \in InvalidFrames :
       ws' = [ ws EXCEPT ![s].pc = AfterInvalid,
                         ![s].frames_in = @ + 1,
                         ![s].last_in = Some(frame),
                         ![s].frames = Append(@, ErrorFrame) ]
  /\ receivers' = IF AfterInvalid = "running" THEN receivers ELSE DropReceiver(s)
  /\ UNCHANGED << callVars, now, store, lockReaders, pollVars, busLog, rest, lastCommit, writeVars >>

WsSession(s) == WsOpen(s) \/ WsBusRecv(s) \/ WsClose(s)

\* ------------------------------------------------- REST: write_register
\* The raw u16 values clients ask to write.
WriteValues == { 100, 200 }

\* For now, we'll use a placeholder address: 0u16.
WriteAddress(st, d, r) == 0

\* A send that fails at once on a full queue (try_send).
MpscTrySend(queue, open) ==
  IF ~open \/ Len(queue) >= WRITE_QUEUE_DEPTH THEN "err" ELSE "ok"

\* mpsc::Sender::send(..).await: Err when the receiver is gone, delivered when
\* the queue has room, otherwise the sender waits for room.
MpscSend(queue, open) ==
  IF ~open THEN "err"
  ELSE IF Len(queue) < WRITE_QUEUE_DEPTH THEN "ok"
  ELSE "pending"

\* The (device, register) paths written to: the paths read, an input register
\* and a configured device that has no value in the store.
WriteTargets == RestTargets \cup { << "plc-001", "humidity" >>, << "rtu-001", "pressure" >> }

\* A validation that looks the register up before the device.
ValidateWriteRegisterFirst(st, d, r) ==
  IF \A x \in DOMAIN st : r \notin DOMAIN st[x] THEN "Register not found"
  ELSE IF d \notin DOMAIN st THEN "Device not found"
  ELSE IF r \notin DOMAIN st[d] THEN "Register not found"
  ELSE ""

\* store.get(&device_id).ok_or_else(404 "Device not found")?, then
\* registers.get(&register_name).ok_or_else(404 "Register not found")?.
ValidateWrite(st, d, r) ==
  IF d \notin DOMAIN st THEN "Device not found"
  ELSE IF r \notin DOMAIN st[d] THEN "Register not found"
  ELSE ""

\* A validation whose read guard lives on after the block.
GuardAfterValidationHeld(readers, h) == readers \cup { h }

\* let address = { let store = state.store.read().await; ... }: the read
\* guard is dropped at the end of the block, found or not.
GuardAfterValidation(readers, h) == readers

\* write_register up to the send: device and register are looked up in the
\* store under the read lock; then the one-shot channel and the WriteRequest
\* are built.
WriteRegisterStart(h) ==
  /\ writes[h].pc = "idle"
  /\ \E t \in WriteTargets, v \in WriteValues :
       writes' = [ writes EXCEPT ![h] =
         IF ValidateWrite(store, t[1], t[2]) # ""
           THEN [ pc |-> "done", device_id |-> t[1], register_name |-> t[2], value |-> v,
                  resp |-> ApiError(404, ValidateWrite(store, t[1], t[2])) ]
         ELSE [ pc |-> "send", device_id |-> t[1], register_name |-> t[2], value |-> v,
                resp |-> NoResp ] ]
  /\ replies' = [ replies EXCEPT ![h] =
                    IF writes'[h].pc = "send"
                      THEN [ tx |-> "open", rx |-> "open", value |-> None ] ELSE @ ]
  /\ lockReaders' = GuardAfterValidation(lockReaders, h)
  /\ UNCHANGED << callVars, now, store, pollVars, busLog, receivers, rest, lastCommit,
                  writeQueue, writeRxOpen, deviceWrites, ws >>

WriteRequestOf(h) ==
  [ device_id |-> writes[h].device_id,
    address |-> WriteAddress(store, writes[h].device_id, writes[h].register_name),
    value |-> writes[h].value, response_tx |-> h ]

\* state.write_tx.send(write_request).await.map_err(503): the request is
\* queued, or the handler waits for room, or the channel is closed and both
\* ends of the one-shot channel are dropped with the error.
WriteRegisterSend(h) ==
  /\ writes[h].pc \in { "send", "send_wait" }
  /\ LET res == MpscSend(writeQueue, writeRxOpen) IN
       CASE res = "ok" ->
              /\ writeQueue' = Append(writeQueue, WriteRequestOf(h))
              /\ writes' = [ writes EXCEPT ![h].pc = "wait" ]
              /\ UNCHANGED replies
         [] res = "pending" ->
              /\ writes[h].pc = "send"
              /\ writes' = [ writes EXCEPT ![h].pc = "send_wait" ]
              /\ UNCHANGED << writeQueue, replies >>
         [] res = "err" ->
              /\ writes' = [ writes EXCEPT ![h].pc = "done", ![h].resp =
                   ApiErrorWithDetails(503, "Write service unavailable",
                                       "The Modbus write handler is not running") ]
              /\ replies' = [ replies EXCEPT ![h] = [ @ EXCEPT !.tx = "dropped", !.rx = "dropped" ] ]
              /\ UNCHANGED writeQueue
  /\ UNCHANGED << callVars, now, store, lockReaders, pollVars, busLog, receivers, rest, lastCommit,
                  writeRxOpen, deviceWrites, ws >>

\* A timeout answered as a client-side REQUEST_TIMEOUT.
TimeoutErrorRequestTimeout ==
  ApiErrorWithDetails(408, "Write timeout", "The Modbus device did not respond in time")

\* Err(_) of the timeout: GATEWAY_TIMEOUT "Write timeout".
TimeoutError ==
  ApiErrorWithDetails(504, "Write timeout", "The Modbus device did not respond in time")

\* timeout(5 s, response_rx) elapses with no reply in the channel: 504, and
\* response_rx is dropped with the future.
WriteRegisterTimeout(h) ==
  /\ writes[h].pc = "wait"
  /\ replies[h].value = None /\ replies[h].tx = "open"
  /\ writes' = [ writes EXCEPT ![h].pc = "done", ![h].resp = TimeoutError ]
  /\ replies' = [ replies EXCEPT ![h].rx = "dropped" ]
  /\ UNCHANGED << callVars, now, store, lockReaders, pollVars, busLog, receivers, rest, lastCommit,
                  writeQueue, writeRxOpen, deviceWrites, ws >>

\* A response whose value_written is not the value requested.
WriteOutcomeZero(h, result) ==
  IF result = None
    THEN ApiErrorWithDetails(500, "Write failed", "Response channel closed unexpectedly")
  ELSE IF result[1].ok
    THEN OkJson([ success |-> TRUE, device_id |-> writes[h].device_id,
                  register_name |-> writes[h].register_name, value_written |-> 0,
                  message |-> "Register written successfully" ])
  ELSE ApiErrorWithDetails(502, "Modbus write failed", result[1].err)

\* The reply decides the response: RecvError (sender dropped) -> 500,
\* Ok(()) -> 200 with the WriteRegisterResponse, Err(e) -> 502 with e.
WriteOutcome(h, result) ==
  IF result = None
    THEN ApiErrorWithDetails(500, "Write failed", "Response channel closed unexpectedly")
  ELSE IF result[1].ok
    THEN OkJson([ success |-> TRUE, device_id |-> writes[h].device_id,
                  register_name |-> writes[h].register_name,
                  value_written |-> writes[h].value,
                  message |-> "Register written successfully" ])
  ELSE ApiErrorWithDetails(502, "Modbus write failed", result[1].err)

\* An acknowledged write that is stored as the register's new value.
AfterWriteStored(st, h, result) ==
  IF result # None /\ result[1].ok
    THEN [ st EXCEPT ![writes[h].device_id][writes[h].register_name] =
             [ @ EXCEPT !.raw = << writes[h].value >>, !.value = writes[h].value ] ]
    ELSE st

\* match result { Ok(()) => info!(..) and the response, Err(e) => 502 }: the
\* handler does not take the store's write lock.
AfterWrite(st, h, result) == st

\* response_rx resolves within the timeout: with the reply sent, or with
\* RecvError when the sender was dropped without a reply.
WriteRegisterReply(h) ==
  /\ writes[h].pc = "wait"
  /\ replies[h].value # None \/ replies[h].tx = "dropped"
  /\ writes' = [ writes EXCEPT ![h].pc = "done",
                               ![h].resp = WriteOutcome(h, replies[h].value) ]
  /\ replies' = [ replies EXCEPT ![h].rx = "dropped" ]
  /\ store' = AfterWrite(store, h, replies[h].value)
  /\ UNCHANGED << callVars, now, lockReaders, pollVars, busLog, receivers, rest, lastCommit,
                  writeQueue, writeRxOpen, deviceWrites, ws >>

WriteRegister(h) ==
  WriteRegisterStart(h) \/ WriteRegisterSend(h) \/ WriteRegisterTimeout(h) \/ WriteRegisterReply(h)

\* ------------------------------------------------------ Write Coordinator
\* The device ids a sender may name: a configured one and an unknown one.
DirectDevices == { "plc-001", "nope" }

\* A clone of the public ApiState.write_tx is used directly: a WriteRequest
\* with its own one-shot channel is sent when the queue has room.
DirectSend(c) ==
  /\ replies[c] = NoChannel
  /\ writeRxOpen
  /\ Len(writeQueue) < WRITE_QUEUE_DEPTH
  /\ \E d \in DirectDevices, v \in WriteValues :
       writeQueue' = Append(writeQueue,
                            [ device_id |-> d, address |-> 0, value |-> v, response_tx |-> c ])
  /\ replies' = [ replies EXCEPT ![c] = [ tx |-> "open", rx |-> "open", value |-> None ] ]
  /\ UNCHANGED << callVars, now, store, lockReaders, pollVars, busLog, receivers, rest, lastCommit,
                  writes, writeRxOpen, deviceWrites, ws >>

ResultOk == [ ok |-> TRUE, err |-> "" ]
ResultErr(e) == [ ok |-> FALSE, err |-> e ]

\* oneshot::Sender::send: the value is stored unless the receiver is gone;
\* the sender is consumed either way.
OneshotSend(ch, result) ==
  IF ch.rx = "dropped" THEN [ ch EXCEPT !.tx = "dropped" ]
  ELSE [ ch EXCEPT !.tx = "dropped", !.value = Some(result) ]

\* ModbusClient::write_register: with a context the device executes
\* write_single_register or the call fails; without one it fails. No caller
\* exists in the bridge.
ClientWriteRegister(d, address, value) ==
  IF context[d] = None
    THEN { [ result |-> ResultErr("No connection available"), written |-> {} ] }
    ELSE { [ result |-> ResultOk,
             written |-> { [ device_id |-> d, address |-> address, value |-> value ] } ],
           [ result |-> ResultErr("Modbus write error"), written |-> {} ] }

\* The queued requests' reply senders are dropped with the queue.
DropQueued(chs, queue) ==
  [ h \in DOMAIN chs |->
      IF \E i \in DOMAIN queue : queue[i].response_tx = h
        THEN [ chs[h] EXCEPT !.tx = "dropped" ] ELSE chs[h] ]

\* A handler that unwraps the result of the send: it panics when the reply
\* receiver is gone.
SendResultUnwrapped(ch) == ch.rx # "dropped"

\* let _ = request.response_tx.send(Ok(())): the result of the send is
\* discarded, the while loop goes on whatever it was.
SendResultDiscarded(ch) == TRUE

\* A handler that answers on the channel of the first REST request.
ResponseTxOfFirst(request) == "post1"

\* request.response_tx: the reply sender that came with the request.
ResponseTx(request) == request.response_tx

\* A handler that forwards the request to the device as soon as it is taken.
HandlerWritesDevice(request) ==
  { [ device_id |-> request.device_id, address |-> request.address,
      value |-> request.value ] }

\* "For now, acknowledge the write request": the handler owns no Modbus
\* client and issues no transaction.
HandlerWrites(request) == {}

\* The spawned write request handler: for each request received,
\* request.response_tx.send(Ok(())) and a log line; no Modbus client is used.
\* A handler that stops drops write_rx and the requests still queued.
WriteRequestHandler ==
  /\ writeRxOpen
  /\ writeQueue # << >>
  /\ LET request == Head(writeQueue)
         sent == [ replies EXCEPT ![ResponseTx(request)] = OneshotSend(@, ResultOk) ]
     IN  IF SendResultDiscarded(replies[ResponseTx(request)])
           THEN /\ replies' = sent
                /\ writeQueue' = Tail(writeQueue)
                /\ UNCHANGED writeRxOpen
           ELSE /\ replies' = DropQueued(sent, Tail(writeQueue))
                /\ writeQueue' = << >>
                /\ writeRxOpen' = FALSE
  /\ deviceWrites' = deviceWrites \cup HandlerWrites(Head(writeQueue))
  /\ UNCHANGED << callVars, now, store, lockReaders, pollVars, busLog, receivers, rest, lastCommit,
                  writes, ws >>

\* write_rx is dropped: the task owning it is dropped when the runtime shuts
\* down (or the receiver was never kept, as in create_test_state).
WriteRxDropped ==
  /\ writeRxOpen
  /\ writeRxOpen' = FALSE
  /\ replies' = DropQueued(replies, writeQueue)
  /\ writeQueue' = << >>
  /\ UNCHANGED << callVars, now, store, lockReaders, pollVars, busLog, receivers, rest, lastCommit,
                  writes, deviceWrites, ws >>

\* A holder of write_rx other than the bridge (a test harness): it takes a
\* request and replies Ok, replies Err(message), or drops the request.
HarnessServe ==
  /\ writeRxOpen
  /\ writeQueue # << >>
  /\ LET request == Head(writeQueue) IN
       \E out \in { "ok", "err", "drop" } :
         replies' = [ replies EXCEPT ![request.response_tx] =
           CASE out = "ok" -> OneshotSend(@, ResultOk)
             [] out = "err" -> OneshotSend(@, ResultErr("Illegal data address"))
             [] out = "drop" -> [ @ EXCEPT !.tx = "dropped" ] ]
  /\ writeQueue' = Tail(writeQueue)
  /\ UNCHANGED << callVars, now, store, lockReaders, pollVars, busLog, receivers, rest, lastCommit,
                  writes, writeRxOpen, deviceWrites, ws >>

Next == ClockTick \/ (\E d \in DeviceIds : Poll(d)) \/ (\E h \in RestIds : GetRegister(h))

Spec == Init /\ [][Next]_vars

\* Poll loops publishing to the Update Bus and WebSocket sessions receiving;
\* the clock is held still (no bus operation reads a timestamp).
NextBus == (\E d \in DeviceIds : Poll(d)) \/ (\E s \in WsIds : WsSession(s))

SpecBus == Init /\ [][NextBus]_vars

\* The values of a first poll of plc-001 in which both reads succeeded.
SeedValue ==
  [ name |-> "temperature", raw |-> << 250 >>, value |-> 250, unit |-> Some("C"),
    timestamp |-> 0 ]

SeedHumidity ==
  [ name |-> "humidity", raw |-> << 65436 >>, value |-> -1040, unit |-> None,
    timestamp |-> 0 ]

\* The state after that poll: both values committed, nothing stored on the
\* bus (no receiver), the task waits for its next tick.
InitWrite ==
  /\ now = 0
  /\ store = StoreInsert(StoreInsert(EmptyMap, "plc-001", SeedValue), "plc-001", SeedHumidity)
  /\ lastCommit = (<< "plc-001", "temperature" >> :> SeedValue)
                     @@ (<< "plc-001", "humidity" >> :> SeedHumidity)
  /\ lockReaders = {}
  /\ context = [ d \in DeviceIds |-> IF d = "plc-001" THEN Some("tcp") ELSE None ]
  /\ pollPc = [ d \in DeviceIds |-> IF d = "plc-001" THEN "tick" ELSE "connect" ]
  /\ regIdx = [ d \in DeviceIds |-> 1 ]
  /\ regValue = [ d \in DeviceIds |-> None ]
  /\ lastRead = [ d \in DeviceIds |->
                   IF d = "plc-001" THEN Some("") ELSE None ]
  /\ cycleSent = [ d \in DeviceIds |->
                    IF d = "plc-001" THEN << "temperature", "humidity" >> ELSE << >> ]
  /\ cycleOk = [ d \in DeviceIds |-> IF d = "plc-001" THEN { 1, 2 } ELSE {} ]
  /\ busLog = << >>
  /\ receivers = EmptyMap
  /\ rest = [ h \in RestIds |-> IdleRest ]
  /\ writes = [ h \in WriteIds |-> IdleWrite ]
  /\ writeQueue = << >>
  /\ writeRxOpen = TRUE
  /\ replies = [ h \in ChannelIds |-> NoChannel ]
  /\ deviceWrites = {}
  /\ ws = [ s \in WsIds |-> NewSession ]
  /\ auth = NoCall
  /\ decode = NoCall

\* REST writes against the bridge's write request handler.
NextWrite == (\E h \in WriteIds : WriteRegister(h)) \/ WriteRequestHandler \/ WriteRxDropped

SpecWrite == InitWrite /\ [][NextWrite]_vars

\* REST writes against the write request handler while the bridge runs (the
\* runtime does not shut down).
NextServe == (\E h \in WriteIds : WriteRegister(h)) \/ WriteRequestHandler

SpecServe == InitWrite /\ [][NextServe]_vars

\* The WebSocket connection whose client changes its subscription.
FilterIds == { "ws1" }

\* The devices whose poll loop reaches the bus: rtu-001 has no context and
\* never publishes, and its task shares no state with the sessions.
PublisherIds == { d \in DeviceIds : ConfigOf(d).connection = "tcp" }

\* The publishing poll loops next to one WebSocket client that subscribes,
\* unsubscribes, sends invalid frames and receives.
NextWs ==
  \/ \E d \in PublisherIds : Poll(d)
  \/ \E s \in FilterIds : WsSession(s) \/ WsClientFrame(s) \/ WsInvalidFrame(s)

SpecWs == Init /\ [][NextWs]_vars

\* The registers whose values a store may hold, per device: those of the
\* API tests' data.
QueryRegisters ==
  ("plc-001" :> { "temperature", "humidity" }) @@ ("sensor-001" :> { "pressure" })

\* The commit instants of a device's registers: each committed register's.
QueryStamps(d) ==
  UNION { [ names -> 0..MaxClock ] : names \in (SUBSET QueryRegisters[d]) \ { {} } }

QueryValue(name, t) ==
  [ name |-> name, raw |-> << 250 >>, value |-> 250, unit |-> Some("C"), timestamp |-> t ]

\* The stores commits can build: any devices, each with at least one register.
QueryStores ==
  { [ d \in D |-> [ n \in DOMAIN f[d] |-> QueryValue(n, f[d][n]) ] ] :
      D \in SUBSET DOMAIN QueryRegisters,
      f \in { g \in [ DOMAIN QueryRegisters -> UNION { QueryStamps(d) : d \in DOMAIN QueryRegisters } ] :
                \A d \in DOMAIN QueryRegisters : g[d] \in QueryStamps(d) } }

\* An API state over a populated store, no request in flight.
InitQuery ==
  /\ store \in QueryStores
  /\ lastCommit = [ key \in { k \in (DOMAIN QueryRegisters) \X (UNION { QueryRegisters[d] : d \in DOMAIN QueryRegisters }) :
                                k[1] \in DOMAIN store /\ k[2] \in DOMAIN store[k[1]] }
                       |-> store[key[1]][key[2]] ]
  /\ now = MaxClock
  /\ lockReaders = {}
  /\ context = [ d \in DeviceIds |-> None ]
  /\ pollPc = [ d \in DeviceIds |-> "connect" ]
  /\ regIdx = [ d \in DeviceIds |-> 1 ]
  /\ regValue = [ d \in DeviceIds |-> None ]
  /\ lastRead = [ d \in DeviceIds |-> None ]
  /\ cycleSent = [ d \in DeviceIds |-> << >> ]
  /\ cycleOk = [ d \in DeviceIds |-> {} ]
  /\ busLog = << >>
  /\ receivers = EmptyMap
  /\ rest = [ h \in RestIds |-> IdleRest ]
  /\ writes = [ h \in WriteIds |-> IdleWrite ]
  /\ writeQueue = << >>
  /\ writeRxOpen = TRUE
  /\ replies = [ h \in ChannelIds |-> NoChannel ]
  /\ deviceWrites = {}
  /\ ws = [ s \in WsIds |-> NewSession ]
  /\ auth = NoCall
  /\ decode = NoCall

\* REST queries over the devices of a store.
NextQuery == \E h \in RestIds : ListDevices(h) \/ GetDevice(h) \/ GetReturn(h)

SpecQuery == InitQuery /\ [][NextQuery]_vars

\* The write request handler serving REST writes and direct senders.
NextCoordinator == NextWrite \/ (\E c \in DirectIds : DirectSend(c))

SpecCoordinator == InitWrite /\ [][NextCoordinator]_vars

\* REST writes against any holder of the queue's receiving end.
NextApi == (\E h \in WriteIds : WriteRegister(h)) \/ HarnessServe \/ WriteRxDropped

SpecApi == InitWrite /\ [][NextApi]_vars

\* The whole bridge after a first poll: the TCP device's poll loop, a REST
\* read, a REST write served by the write request handler, and a WebSocket
\* session; the clock is held still.
NextSystem ==
  \/ \E d \in PublisherIds : PollCycle(d)
  \/ \E h \in RestIds : GetRegister(h)
  \/ WriteRegister("post1")
  \/ WriteRequestHandler
  \/ \E s \in FilterIds : WsSession(s)

SpecSystem == InitWrite /\ [][NextSystem]_vars

\* Two REST writes and a direct sender contending for the write queue while
\* the poll task reads, commits and publishes.
NextWait ==
  \/ \E h \in { "post1", "post2" } : WriteRegister(h)
  \/ \E c \in DirectIds : DirectSend(c)
  \/ WriteRequestHandler
  \/ \E d \in PublisherIds : PollCycle(d)

SpecWait == InitWrite /\ [][NextWait]_vars

\* Timestamps: the clock, the TCP device's poll loop and a WebSocket session.
NextTimed ==
  \/ ClockTick
  \/ \E d \in PublisherIds : Poll(d)
  \/ \E s \in FilterIds : WsSession(s)

SpecTimed == Init /\ [][NextTimed]_vars

\* sender.send(Message::Text(json)).await with no timeout around it: while
\* the client does not read and the socket's buffer is full the task stays in
\* the await ("sending"), inside the select! arm, with update_rx alive. The
\* await returns when the client reads again (Ok) or the transport fails
\* (Err, the loop breaks).
WsSend(s) ==
  /\ \/ /\ ws[s].pc = "running"
        /\ receivers[s] < Len(busLog)
        /\ LET ev == BusRecv(busLog, receivers[s]) IN
             /\ ev.kind = "msg"
             /\ ShouldSend(ws[s].subscribed_devices, ev.update[1].device_id)
             /\ ws' = [ ws EXCEPT ![s].pc = "sending", ![s].got = Append(@, ev) ]
             /\ receivers' = [ receivers EXCEPT ![s] = NextAfter(busLog, receivers[s], ev) ]
     \/ /\ ws[s].pc = "sending"
        /\ LET update == ws[s].got[Len(ws[s].got)].update[1] IN
           \E sent \in BOOLEAN :
             /\ ws' = [ ws EXCEPT ![s].pc = IF sent THEN "running" ELSE "ended",
                                  ![s].out = Append(@, update),
                                  ![s].frames = Append(@, UpdateFrame) ]
             /\ receivers' = IF sent THEN receivers ELSE DropReceiver(s)
  /\ UNCHANGED << callVars, now, store, lockReaders, pollVars, busLog, rest, lastCommit, writeVars >>

\* The TCP device's poll loop and a WebSocket session whose client may stop
\* reading. The runtime keeps scheduling the poll loop and the session's
\* task; nothing obliges the client to read or to close.
NextSend ==
  \/ \E d \in PublisherIds : Poll(d)
  \/ \E s \in FilterIds : WsSession(s) \/ WsSend(s)

SpecSend ==
  /\ Init /\ [][NextSend]_vars
  /\ \A d \in PublisherIds : WF_vars(Poll(d))
  /\ \A s \in FilterIds : WF_vars(WsOpen(s) \/ WsBusRecv(s))

\* ------------------------------------------------------ API-key middleware
\* The rest of the bridge at rest: nothing polled, no session, no request.
Quiescent ==
  /\ now = 0
  /\ store = EmptyMap
  /\ lockReaders = {}
  /\ context = [ d \in DeviceIds |-> None ]
  /\ pollPc = [ d \in DeviceIds |-> "connect" ]
  /\ regIdx = [ d \in DeviceIds |-> 1 ]
  /\ regValue = [ d \in DeviceIds |-> None ]
  /\ lastRead = [ d \in DeviceIds |-> None ]
  /\ cycleSent = [ d \in DeviceIds |-> << >> ]
  /\ cycleOk = [ d \in DeviceIds |-> {} ]
  /\ busLog = << >>
  /\ receivers = EmptyMap
  /\ rest = [ h \in RestIds |-> IdleRest ]
  /\ lastCommit = EmptyMap
  /\ writes = [ h \in WriteIds |-> IdleWrite ]
  /\ writeQueue = << >>
  /\ writeRxOpen = TRUE
  /\ replies = [ h \in ChannelIds |-> NoChannel ]
  /\ deviceWrites = {}
  /\ ws = [ s \in WsIds |-> NewSession ]

ReceivedRequest(config, request) ==
  [ pc |-> "received", config |-> config, request |-> request, resp |-> None ]

\* One AuthState, built from the configuration; a first request has arrived.
InitAuth ==
  /\ Quiescent
  /\ decode = NoCall
  /\ auth \in { ReceivedRequest(c, r) : c \in AuthConfigs, r \in Requests }

\* The middleware answers the request or lets the handler answer it.
ApiKeyAuth ==
  /\ auth.pc = "received"
  /\ \E resp \in api_key_auth(auth.config, auth.request) :
       auth' = [ auth EXCEPT !.pc = "answered", !.resp = Some(resp) ]
  /\ UNCHANGED << now, store, lockReaders, pollVars, busLog, receivers, rest, lastCommit,
                  writeVars, ws, decode >>

\* The next request reaches the same AuthState.
AuthNextRequest ==
  /\ auth.pc = "answered"
  /\ \E r \in Requests : auth' = ReceivedRequest(auth.config, r)
  /\ UNCHANGED << now, store, lockReaders, pollVars, busLog, receivers, rest, lastCommit,
                  writeVars, ws, decode >>

NextAuth == ApiKeyAuth \/ AuthNextRequest

SpecAuth == InitAuth /\ [][NextAuth]_vars

\* ----------------------------------------------------------------- decoder
\* Longest raw sequence handed to the decoder, in words.
MaxRawLen == 2

\* A RegisterConfig as the decoder sees it: data type, scale and offset.
make_register_config(data_type, scale, offset) ==
  [ name |-> "test", address |-> 0, register_type |-> "holding", count |-> 1,
    data_type |-> data_type, unit |-> None, scale |-> scale, offset |-> offset ]

RegisterConfigs ==
  { make_register_config(dt, sc, off) :
      dt \in DataTypes, sc \in { None, Some(10) }, off \in { None, Some(-40) } }

\* Raw reads: every sequence of at most MaxRawLen words, the empty one included.
Raws == UNION { [ 1..n -> DecodeWords ] : n \in 0..MaxRawLen }

\* The calls whose result is an integer of the checker: a u32 or f32 pattern
\* below 2^31, and 32-bit patterns with default scale and offset.
Fits(config, raw) ==
  (config.data_type \in { "u32", "i32", "f32" } /\ Len(raw) >= 2) =>
    /\ config.scale = None /\ config.offset = None
    /\ config.data_type \in { "u32", "f32" } => raw[1] < 32768

Called(config, raw) == [ pc |-> "called", config |-> config, raw |-> raw, value |-> None ]

InitDecode ==
  /\ Quiescent
  /\ auth = NoCall
  /\ decode \in { Called(c, raw) : c \in RegisterConfigs, raw \in Raws }
  /\ Fits(decode.config, decode.raw)

\* convert_value returns.
ConvertValue ==
  /\ decode.pc = "called"
  /\ decode' = [ decode EXCEPT !.pc = "returned",
                               !.value = Some(convert_value(decode.raw, decode.config)) ]
  /\ UNCHANGED << now, store, lockReaders, pollVars, busLog, receivers, rest, lastCommit,
                  writeVars, ws, auth >>

\* The next read of the same register is decoded.
NextRead ==
  /\ decode.pc = "returned"
  /\ \E raw \in Raws :
       /\ Fits(decode.config, raw)
       /\ decode' = Called(decode.config, raw)
  /\ UNCHANGED << now, store, lockReaders, pollVars, busLog, receivers, rest, lastCommit,
                  writeVars, ws, auth >>

NextDecode == ConvertValue \/ NextRead

SpecDecode == InitDecode /\ [][NextDecode]_vars

\* ------------------------------------------------------------------ claims
Keys == DeviceIds \X RegisterNames

\* The step in which device d's read of its current register fails.
FailedReadStep(d) ==
  /\ pollPc[d] = "read"
  /\ pollPc'[d] # "read" \/ regIdx'[d] # regIdx[d]
  /\ lastRead'[d] # Some("")

\* C1: a failed read (protocol exception, transport error or no connection)
\* leaves the Register Store unchanged; get_register(d, r) still returns the
\* RegisterValue last committed.
C1_FailedReadKeepsStore ==
  [][ \A d \in DeviceIds :
        FailedReadStep(d) =>
          /\ store' = store
          /\ \A k \in Keys : GetRegisterOf(store', k[1], k[2]) = GetRegisterOf(store, k[1], k[2])
    ]_vars

\* A read of temperature has just failed with a protocol exception in a cycle
\* while the store holds its last-good value.
C1_Witness ==
  \E d \in DeviceIds :
    /\ pollPc[d] = "read" /\ regIdx[d] = 2 /\ cycleOk[d] = {}
    /\ lastRead[d] = Some("Modbus error: exception")
    /\ d \in DOMAIN store /\ RegistersOf(d)[1].name \in DOMAIN store[d]

\* A response in hand equals the most recent commit, whole; the store holds
\* exactly the most recent commits.
C2_Whole ==
  /\ \A h \in RestIds :
       (rest[h].pc = "respond" /\ rest[h].resp.status = 200) =>
         /\ << rest[h].device_id, rest[h].register_name >> \in DOMAIN lastCommit
         /\ rest[h].resp.body =
              Some(RegisterResponseOf(lastCommit[<< rest[h].device_id, rest[h].register_name >>]))
  /\ \A k \in Keys :
       IF k \in DOMAIN lastCommit
         THEN GetRegisterOf(store, k[1], k[2]).body = Some(RegisterResponseOf(lastCommit[k]))
         ELSE GetRegisterOf(store, k[1], k[2]).status = 404

\* The RegisterValue get_register returns for a key changes only in a commit
\* to that key.
C2_UntilNextCommit ==
  \A k \in Keys :
    GetRegisterOf(store', k[1], k[2]).body # GetRegisterOf(store, k[1], k[2]).body =>
      /\ pollPc[k[1]] = "commit" /\ pollPc'[k[1]] = "publish"
      /\ regValue[k[1]][1].name = k[2]

\* C2: under any interleaving of commits and REST reads, get_register(d, r)
\* returns exactly the RegisterValue of the most recent commit to (d, r), all
\* fields from that one commit, and the result stays the same until the next
\* commit to (d, r).
C2_Linearized == [] C2_Whole /\ [][ C2_UntilNextCommit ]_vars

\* A 200 response is in hand while the next commit to the same key, with
\* different content, waits for the lock.
C2_Witness ==
  \E h \in RestIds :
    /\ rest[h].pc = "respond" /\ rest[h].resp.status = 200
    /\ pollPc[rest[h].device_id] = "commit"
    /\ regValue[rest[h].device_id][1].name = rest[h].register_name
    /\ regValue[rest[h].device_id][1].raw # rest[h].resp.body[1].raw
    /\ ToRfc3339(regValue[rest[h].device_id][1].timestamp) # rest[h].resp.body[1].timestamp

\* Position of a register name in the device's configured list.
IndexOfName(d, name) ==
  CHOOSE i \in DOMAIN RegistersOf(d) : RegistersOf(d)[i].name = name

StrictlyIncreasing(seq) ==
  \A i, j \in DOMAIN seq : i < j => seq[i] < seq[j]

\* C6: within one poll cycle, the updates are published in the order of the
\* device's configured register list, restricted to the registers whose read
\* succeeded in that cycle.
C6_PublishOrder ==
  \A d \in DeviceIds :
    LET idx == [ i \in DOMAIN cycleSent[d] |-> IndexOfName(d, cycleSent[d][i]) ]
        inFlight == IF pollPc[d] \in { "commit", "publish" }
                      THEN { VisitIndex(d, regIdx[d]) } ELSE {}
    IN  /\ StrictlyIncreasing(idx)
        /\ { idx[i] : i \in DOMAIN idx } = cycleOk[d] \ inFlight

\* A cycle has ended with both registers of a device published.
C6_Witness ==
  \E d \in DeviceIds :
    /\ pollPc[d] = "tick" /\ Len(RegistersOf(d)) >= 2
    /\ cycleSent[d] = << RegistersOf(d)[1].name, RegistersOf(d)[2].name >>

\* C3: publishing never blocks or stops a Poll Loop: whatever the number of
\* subscribers and however far behind or failed any of them is, the publish
\* step can be taken at once.
C3_PublishNeverBlocks ==
  \A d \in DeviceIds : pollPc[d] = "publish" => ENABLED PollPublish(d)

\* A Poll Loop is about to publish while one subscriber's buffer is full and
\* another session has failed.
C3_Witness ==
  \E d \in DeviceIds :
    /\ pollPc[d] = "publish"
    /\ \E r \in DOMAIN receivers : Len(busLog) - receivers[r] >= BROADCAST_CAPACITY
    /\ \E s \in WsIds : ws[s].pc = "ended"

HasLagged(got) == \E i \in DOMAIN got : got[i].kind = "lagged"

\* A step in which session r is handed an event by its receiver.
ReceiveStep(r) == Len(ws'[r].got) = Len(ws[r].got) + 1

\* A receiver that has never lagged holds every update stored since it
\* subscribed, once each and in publish order.
C4_AllInOrder ==
  \A r \in DOMAIN receivers :
    ~HasLagged(ws[r].got) =>
      ws[r].got = [ i \in 1..(receivers[r] - ws[r].start) |->
                      Received(ws[r].start + i, busLog[ws[r].start + i]) ]

\* A receiver within the capacity is handed the next update in order, whatever
\* the backlog of the other receivers.
C4_Unaffected ==
  \A r \in WsIds :
    (ReceiveStep(r) /\ Len(busLog) - receivers[r] <= BROADCAST_CAPACITY) =>
      ws'[r].got = Append(ws[r].got, Received(receivers[r] + 1, busLog[receivers[r] + 1]))

\* C4: a subscriber that drains promptly receives every published update
\* exactly once and in publish order, even while another subscriber of the
\* same bus is paused and overflows its buffer.
C4_PromptSubscriber == [] C4_AllInOrder /\ [][ C4_Unaffected ]_vars

\* More than a capacity of updates is stored; one subscriber has received
\* them all, the other is paused and has overflowed.
C4_Witness ==
  \E a, b \in DOMAIN receivers :
    /\ Len(busLog) > BROADCAST_CAPACITY
    /\ ws[a].start = 0 /\ receivers[a] = Len(busLog)
    /\ Len(ws[a].got) = Len(busLog) /\ ~HasLagged(ws[a].got)
    /\ ws[b].got = << >> /\ receivers[b] = 0

\* The cursor a receiver reaches by its events: one per update, n per Lagged(n).
RECURSIVE Covered(_)
Covered(got) ==
  IF got = << >> THEN 0
  ELSE Covered(SubSeq(got, 1, Len(got) - 1))
         + (IF got[Len(got)].kind = "lagged" THEN got[Len(got)].n ELSE 1)

\* Every update since the subscription is either received, in order, or
\* counted in a Lagged marker.
C5_Accounted ==
  \A r \in DOMAIN receivers :
    /\ ws[r].start + Covered(ws[r].got) = receivers[r]
    /\ \A i \in DOMAIN ws[r].got :
         IF ws[r].got[i].kind = "lagged"
           THEN ws[r].got[i].n >= 1
           ELSE /\ ws[r].got[i].pos = ws[r].start + Covered(SubSeq(ws[r].got, 1, i))
                /\ ws[r].got[i].update = Some(busLog[ws[r].got[i].pos])

\* A receive more than the capacity behind yields Lagged(n) with n the number
\* of updates lost, leaves the cursor at the oldest retained update, and the
\* WebSocket session keeps running with its subscription.
C5_LagStep ==
  \A r \in WsIds :
    (ReceiveStep(r) /\ Len(busLog) - receivers[r] > BROADCAST_CAPACITY) =>
      /\ ws'[r].got =
           Append(ws[r].got, Lagged(Len(busLog) - BROADCAST_CAPACITY - receivers[r]))
      /\ ws'[r].pc = "running"
      /\ r \in DOMAIN receivers'
      /\ receivers'[r] = Len(busLog) - BROADCAST_CAPACITY

\* C5: a subscriber more than C updates behind receives Lagged(n) with n at
\* least the number of updates it lost, then the retained updates in publish
\* order; a WebSocket session that gets Lagged keeps running.
C5_LaggedThenNewest == [] C5_Accounted /\ [][ C5_LagStep ]_vars

\* A paused subscriber has resumed: a Lagged marker, then every retained
\* update in order, and its session is still running.
C5_Witness ==
  \E r \in DOMAIN receivers :
    /\ Len(ws[r].got) = BROADCAST_CAPACITY + 1
    /\ ws[r].got[1].kind = "lagged"
    /\ \A i \in 2..Len(ws[r].got) : ws[r].got[i].kind = "msg"
    /\ receivers[r] = Len(busLog)
    /\ ws[r].pc = "running"

\* ------------------------------------------------------------ C7
\* C7: a write request is answered Ok only after the device executed the
\* write of the requested value for that device and the write succeeded.
C7_OkOnlyAfterDeviceWrite ==
  \A h \in WriteIds :
    replies[h].value = Some(ResultOk) =>
      \E w \in deviceWrites : w.device_id = writes[h].device_id /\ w.value = writes[h].value

\* ------------------------------------------------------------ C8
SendStep(h) == writes[h].pc \in { "send", "send_wait" } /\ writes'[h] # writes[h]
QueueFull == Len(writeQueue) >= WRITE_QUEUE_DEPTH

NoReplyYet(h) == replies[h].value = None /\ replies[h].tx = "open"

\* C9: a queued request whose wait ends with no reply on its channel is
\* answered 504 "Write timeout", and its reply receiver is dropped; a reply
\* sent afterwards is discarded.
C9_TimeoutStep ==
  \A h \in WriteIds :
    (writes[h].pc = "wait" /\ NoReplyYet(h) /\ writes'[h].pc = "done") =>
      /\ writes'[h].resp.status = 504
      /\ writes'[h].resp.error = "Write timeout"
      /\ replies'[h].rx = "dropped"

C9_Abandoned ==
  \A h \in WriteIds :
    (writes[h].pc = "done" /\ writes[h].resp.status = 504) =>
      /\ replies[h].rx = "dropped"
      /\ replies[h].value = None
      /\ \A i \in DOMAIN writeQueue : writeQueue[i].response_tx = h => writeRxOpen

C9_WriteTimeout == [] C9_Abandoned /\ [][C9_TimeoutStep]_vars

\* A request timed out and the write request handler has since replied to it
\* (the reply went to the dropped receiver).
C9_Witness ==
  \E h \in WriteIds :
    /\ writes[h].pc = "done" /\ writes[h].resp.status = 504
    /\ replies[h].tx = "dropped"

\* ------------------------------------------------------------ C10
ReplyStep(h) == writes[h].pc = "wait" /\ ~NoReplyYet(h) /\ writes'[h].pc = "done"

\* C10: a queued request answered in time gets its status from the reply:
\* Ok -> 200 with success and value_written = the value requested;
\* Err(msg) -> 502 carrying msg; channel dropped without a reply -> 500.
C10_ReplyStep ==
  \A h \in WriteIds :
    ReplyStep(h) =>
      LET r == replies[h].value
          resp == writes'[h].resp
      IN  /\ (r # None /\ r[1].ok) =>
               /\ resp.status = 200
               /\ resp.body[1].success
               /\ resp.body[1].value_written = writes[h].value
               /\ resp.body[1].device_id = writes[h].device_id
               /\ resp.body[1].register_name = writes[h].register_name
          /\ (r # None /\ ~r[1].ok) =>
               /\ resp.status = 502
               /\ resp.details = Some(r[1].err)
          /\ (r = None) => resp.status = 500

C10_StatusFromReply == [][C10_ReplyStep]_vars

\* All three replies have been answered: one 200, one 502, one 500.
C10_Witness ==
  /\ \E h \in WriteIds : writes[h].resp.status = 200 /\ writes[h].resp.body[1].value_written = 200
  /\ \E h \in WriteIds : writes[h].resp.status = 502
  /\ \E h \in WriteIds : writes[h].resp.status = 500

\* ------------------------------------------------------------ C11
\* The descriptor configured for register `name` of device d.
ConfiguredRegister(d, name) ==
  CHOOSE register \in { RegistersOf(d)[i] : i \in DOMAIN RegistersOf(d) } : register.name = name

IsConfigured(d, name) ==
  d \in DeviceIds /\ \E i \in DOMAIN RegistersOf(d) : RegistersOf(d)[i].name = name

Queued(h) == \E i \in DOMAIN writeQueue : writeQueue[i].response_tx = h

\* C11: every WriteRequest a POST puts on the queue carries the address
\* configured for the register named in the path.
C11_ConfiguredAddress ==
  \A i \in DOMAIN writeQueue :
    LET h == writeQueue[i].response_tx IN
      h \in WriteIds =>
        writeQueue[i].address =
          ConfiguredRegister(writes[h].device_id, writes[h].register_name).address

\* ------------------------------------------------------------ C12
NonHoldingTarget(h) ==
  /\ writes[h].pc # "idle"
  /\ IsConfigured(writes[h].device_id, writes[h].register_name)
  /\ ConfiguredRegister(writes[h].device_id, writes[h].register_name).register_type # "holding"

\* C12: a write aimed at a register that is not a holding register is never
\* queued for the device, never acknowledged Ok and never answered 200.
C12_NonHoldingRefused ==
  \A h \in WriteIds :
    NonHoldingTarget(h) =>
      /\ ~Queued(h)
      /\ replies[h].value # Some(ResultOk)
      /\ writes[h].resp.status # 200

\* ------------------------------------------------------------ C14
StartStep(h) == writes[h].pc = "idle" /\ writes'[h].pc # "idle"

\* C14: a POST for a device with no entry in the store is answered 404
\* "Device not found", one for a known device and an unknown register 404
\* "Register not found"; neither puts a WriteRequest on the queue.
C14_NotFoundStep ==
  \A h \in WriteIds :
    StartStep(h) =>
      LET d == writes'[h].device_id
          r == writes'[h].register_name
          resp == writes'[h].resp
      IN  /\ d \notin DOMAIN store =>
               resp.status = 404 /\ resp.error = "Device not found"
          /\ (d \in DOMAIN store /\ r \notin DOMAIN store[d]) =>
               resp.status = 404 /\ resp.error = "Register not found"
          /\ (d \in DOMAIN store /\ r \in DOMAIN store[d]) => resp.status = 0
          /\ resp.status = 404 => writes'[h].pc = "done" /\ writeQueue' = writeQueue

C14_NeverQueued ==
  \A h \in WriteIds :
    writes[h].resp.status = 404 => ~Queued(h) /\ replies[h] = NoChannel

C14_NotFound == [] C14_NeverQueued /\ [][C14_NotFoundStep]_vars

\* Three requests were refused: an unknown device, a configured device with
\* no value in the store, and an unknown register of a known device.
C14_Witness ==
  /\ \E h \in WriteIds : writes[h].device_id = "nope" /\ writes[h].resp.error = "Device not found"
  /\ \E h \in WriteIds : writes[h].device_id = "rtu-001" /\ writes[h].resp.error = "Device not found"
  /\ \E h \in WriteIds : writes[h].device_id = "plc-001" /\ writes[h].resp.error = "Register not found"

\* ------------------------------------------------------------ C13
\* The write request handler takes the request at the head of the queue.
HandlerStep ==
  writeRxOpen /\ writeRxOpen' /\ writeQueue # << >> /\ writeQueue' = Tail(writeQueue)

\* C13: a request whose device_id is not an existing device is answered
\* Err("device not found") and no Modbus write is issued for it.
C13_UnknownDeviceRefused ==
  [][ (HandlerStep /\ Head(writeQueue).device_id \notin DeviceIds) =>
        /\ replies'[Head(writeQueue).response_tx].value = Some(ResultErr("device not found"))
        /\ deviceWrites' = deviceWrites ]_vars

\* ------------------------------------------------------------ C15
\* C15: a Poll Loop whose connect failed keeps re-issuing connect: whenever
\* the device's task has no session after a failed connect, a further
\* connect is still to come.
C15_KeepsReconnecting ==
  \A d \in DeviceIds : pollPc[d] = "ended" => ENABLED PollConnect(d)

\* ------------------------------------------------------------ C16
\* The state of device e's polling task.
TaskOf(e) == << pollPc[e], context[e], regIdx[e], regValue[e], lastRead[e] >>

DeviceFailed(d) ==
  pollPc[d] = "ended" \/ (lastRead[d] # None /\ lastRead[d] # Some(""))

\* C16 (steps): a step of device d's task, a failure included, leaves every
\* other device's task as it was.
C16_OthersUntouched ==
  \A d \in DeviceIds :
    TaskOf(d)' # TaskOf(d) => \A e \in DeviceIds \ { d } : TaskOf(e)' = TaskOf(e)

\* C16 (states): a task ends only by its own failed TCP connect, and a task
\* that has not ended can take its next step whatever failed elsewhere (a
\* commit waits only for REST readers to release the store lock).
C16_OthersKeepRunning ==
  \A e \in DeviceIds :
    /\ pollPc[e] = "ended" => ConfigOf(e).connection = "tcp" /\ context[e] = None
    /\ (pollPc[e] # "ended" /\ (pollPc[e] = "commit" => lockReaders = {})) => ENABLED Poll(e)

C16_FailureIsolation == [] C16_OthersKeepRunning /\ [][C16_OthersUntouched]_vars

\* One device's task has ended on a failed connect while the other is in the
\* middle of a later cycle.
C16_Witness ==
  \E d \in DeviceIds, e \in DeviceIds :
    /\ d # e
    /\ pollPc[d] = "ended"
    /\ pollPc[e] = "read" /\ lastRead[e] # None

\* ------------------------------------------------------------ C17
\* metrics::record_device_status(&device_id, true) has been executed.
RecordedConnected(d) == pollPc[d] \notin { "connect", "ended" }

\* C17: a session returned by connect has an open transport, so a device
\* recorded as connected is connected (is_connected() is true).
C17_ConnectedSession ==
  \A d \in DeviceIds : RecordedConnected(d) => context[d] # None

\* ------------------------------------------------------------ C18
Committed(d) == \E key \in DOMAIN lastCommit : key[1] = d

\* C18: every device of the store has at least one register, all of them
\* committed; get_device answers 200 only for a device with a commit, then
\* with at least one register, and 404 "Device not found" (code 404) for a
\* device without one.
C18_FoundImpliesCommitted ==
  /\ \A d \in DOMAIN store :
       /\ DOMAIN store[d] # {}
       /\ \A r \in DOMAIN store[d] : << d, r >> \in DOMAIN lastCommit
  /\ \A d \in DeviceTargets :
       \A ord \in DeviceOrders(store, d) :
         LET resp == get_device(store, d, ord)
         IN  /\ resp.status = 200 =>
                  /\ Committed(d)
                  /\ resp.body[1].register_count >= 1
                  /\ Len(resp.body[1].registers) = resp.body[1].register_count
             /\ ~Committed(d) =>
                  resp.status = 404 /\ resp.error = "Device not found" /\ resp.code = 404

\* A device is found after its first commit while a configured device that is
\* polled without success is not.
C18_Witness ==
  /\ "plc-001" \in DOMAIN store
  /\ DOMAIN store["plc-001"] = { "temperature" }
  /\ get_device(store, "plc-001", << "temperature" >>).status = 200
  /\ lastRead["rtu-001"] = Some("No connection available")
  /\ get_device(store, "rtu-001", << >>).status = 404

\* ------------------------------------------------------------ C19
IsListResponse(h) == rest[h].pc = "respond" /\ rest[h].device_id = ""

\* The entries of `devices` whose id is d.
EntriesOf(devices, d) == { i \in DOMAIN devices : devices[i].id = d }

Timestamps(registers) == { registers[n].timestamp : n \in DOMAIN registers }

\* C19: list_devices has exactly one entry per device of the store, giving
\* the number of its registers and the greatest of their timestamps, and
\* count is the number of entries.
C19_ListDevices ==
  \A h \in RestIds :
    IsListResponse(h) =>
      LET body == rest[h].resp.body[1] IN
        /\ rest[h].resp.status = 200
        /\ body.count = Len(body.devices)
        /\ body.count = Cardinality(DOMAIN store)
        /\ \A i \in DOMAIN body.devices : body.devices[i].id \in DOMAIN store
        /\ \A d \in DOMAIN store :
             /\ Cardinality(EntriesOf(body.devices, d)) = 1
             /\ \A i \in EntriesOf(body.devices, d) :
                  /\ body.devices[i].register_count = Cardinality(DOMAIN store[d])
                  /\ \E t \in Timestamps(store[d]) :
                       /\ \A u \in Timestamps(store[d]) : u <= t
                       /\ body.devices[i].last_update = Some(ToRfc3339(t))

\* A list of two devices, one of them with two registers committed at
\* different instants.
C19_Witness ==
  \E h \in RestIds :
    /\ IsListResponse(h)
    /\ rest[h].resp.body[1].count = 2
    /\ Cardinality(DOMAIN store["plc-001"]) = 2
    /\ Cardinality(Timestamps(store["plc-001"])) = 2

\* ------------------------------------------------------------ C20
\* The session's filter is All, or names device_id.
FilterMatches(filter, device_id) ==
  filter = None \/ device_id \in { filter[1][i] : i \in DOMAIN filter[1] }

\* The session received an update (not a lag marker) from the bus.
UpdateStep(s) ==
  /\ Len(ws'[s].got) = Len(ws[s].got) + 1
  /\ ws'[s].got[Len(ws'[s].got)].kind = "msg"

\* C20 (steps): on each update received, the update is handed to the socket
\* as a frame iff the session's current filter is All or contains its
\* device_id; no other step produces an update frame, and only a client
\* frame changes the filter.
C20_FilterStep ==
  \A s \in WsIds :
    LET update == ws'[s].got[Len(ws'[s].got)].update[1] IN
      /\ UpdateStep(s) =>
           IF FilterMatches(ws[s].subscribed_devices, update.device_id)
             THEN ws'[s].out = Append(ws[s].out, update)
             ELSE ws'[s].out = ws[s].out
      /\ ~UpdateStep(s) => ws'[s].out = ws[s].out
      /\ ws'[s].subscribed_devices # ws[s].subscribed_devices =>
           ws'[s].frames_in = ws[s].frames_in + 1

\* C20 (states): a session that has handled no subscribe or unsubscribe frame
\* has filter All and has forwarded every update it received.
C20_InitiallyAll ==
  \A s \in WsIds :
    ws[s].frames_in = 0 =>
      /\ ws[s].subscribed_devices = None
      /\ Len(ws[s].out) = Cardinality({ j \in DOMAIN ws[s].got : ws[s].got[j].kind = "msg" })

C20_Filter == [] C20_InitiallyAll /\ [][C20_FilterStep]_vars

\* A session forwarded an update under filter All, then unsubscribed and
\* received a further update without forwarding it.
C20_Witness ==
  \E s \in WsIds :
    /\ ws[s].subscribed_devices = Some(<< >>)
    /\ Len(ws[s].out) = 1
    /\ Len(ws[s].got) = 2
    /\ ws[s].got[2].kind = "msg"

\* ------------------------------------------------------------ C21
\* The session handled one more client text frame.
FrameStep(s) == ws'[s].frames_in = ws[s].frames_in + 1

IdsOf(list) == { list[i] : i \in DOMAIN list }

\* C21: after a subscribe frame the filter is exactly the ids listed in it,
\* whatever the filter was before; a subscribe frame without devices (missing
\* or null) sets the filter to All.
C21_SubscribeStep ==
  \A s \in WsIds :
    (FrameStep(s) /\ ws'[s].last_in[1].type = "subscribe") =>
      LET devices == ws'[s].last_in[1].devices
          filter == ws'[s].subscribed_devices
      IN  IF devices = None
            THEN filter = None
            ELSE /\ filter # None
                 /\ IdsOf(filter[1]) = IdsOf(devices[1])
                 /\ \A d \in DeviceIds :
                      FilterMatches(filter, d) <=> d \in IdsOf(devices[1])

C21_SubscribeReplaces == [][C21_SubscribeStep]_vars

\* A session that dropped an update under an earlier, non-matching filter has
\* since subscribed to plc-001.
C21_Witness ==
  \E s \in WsIds :
    /\ ws[s].frames_in = 2
    /\ ws[s].last_in = Some([ type |-> "subscribe", devices |-> Some(<< "plc-001" >>) ])
    /\ ws[s].subscribed_devices = Some(<< "plc-001" >>)
    /\ Len(ws[s].got) = 1 /\ ws[s].out = << >>

\* ------------------------------------------------------------ C22
SubscriptionFrame(frame) == frame.type \in { "subscribe", "unsubscribe" }

\* C22: an unsubscribe frame sets the filter to the empty set; while the
\* filter is the empty set no update frame is handed to the socket; and the
\* filter stays as it is until a subscribe or unsubscribe frame is handled.
C22_UnsubscribeStep ==
  \A s \in WsIds :
    /\ (FrameStep(s) /\ ws'[s].last_in[1].type = "unsubscribe") =>
         ws'[s].subscribed_devices = Some(<< >>)
    /\ ws[s].subscribed_devices = Some(<< >>) =>
         /\ ws'[s].out = ws[s].out
         /\ \A i \in DOMAIN ws'[s].frames :
              i > Len(ws[s].frames) => ws'[s].frames[i].type # "update"
    /\ ws'[s].subscribed_devices # ws[s].subscribed_devices =>
         FrameStep(s) /\ SubscriptionFrame(ws'[s].last_in[1])

C22_UnsubscribeSilences == [][C22_UnsubscribeStep]_vars

\* An update was forwarded, then the client unsubscribed and the next update
\* received was not forwarded.
C22_Witness ==
  \E s \in WsIds :
    /\ ws[s].frames_in = 1
    /\ ws[s].last_in = Some([ type |-> "unsubscribe", devices |-> None ])
    /\ Len(ws[s].got) = 2 /\ ws[s].got[2].kind = "msg"
    /\ Len(ws[s].out) = 1

\* ------------------------------------------------------------ C23
\* The session's loop ended without a bus receive or a client text frame: the
\* client closed the transport (Close frame, end of stream, transport error).
CloseStep(s) ==
  /\ ws[s].pc = "running" /\ ws'[s].pc = "ended"
  /\ ws'[s].got = ws[s].got /\ ws'[s].frames_in = ws[s].frames_in

\* C23 (states): the bus receivers are exactly the running sessions, so an
\* ended session holds no subscription and once every client has
\* disconnected no WebSocket subscriber remains.
C23_NoOrphans ==
  /\ DOMAIN receivers = { s \in WsIds : ws[s].pc = "running" }
  /\ (\A s \in WsIds : ws[s].pc = "ended") => receivers = EmptyMap

\* C23 (steps): a close of the transport ends the loop and releases the
\* session's receiver in the same step; an ended session never runs again.
C23_CloseStep ==
  \A s \in WsIds :
    /\ CloseStep(s) => s \notin DOMAIN receivers'
    /\ ws[s].pc = "ended" => ws'[s].pc = "ended"
    /\ (ws[s].pc = "running" /\ UNCHANGED << busLog, pollVars >>) => ENABLED WsClose(s)

C23_CloseReleases == [] C23_NoOrphans /\ [][C23_CloseStep]_vars

\* Both clients subscribed, received an update and closed; the bus still
\* holds the updates and has no receiver.
C23_Witness ==
  /\ \A s \in WsIds : ws[s].pc = "ended" /\ Len(ws[s].got) >= 1 /\ Len(ws[s].frames) >= 2
  /\ busLog # << >>
  /\ receivers = EmptyMap

\* ------------------------------------------------------------ C24
\* C24: the first frame handed to a client's socket is the connected frame
\* with its version string; a session runs, receives and forwards only after
\* that frame.
C24_ConnectedFirst ==
  \A s \in WsIds :
    /\ ws[s].frames # << >> =>
         /\ ws[s].frames[1].type = "connected"
         /\ ws[s].frames[1].message = << "RustBridge WebSocket v", "CARGO_PKG_VERSION" >>
    /\ \A i \in DOMAIN ws[s].frames : i > 1 => ws[s].frames[i].type # "connected"
    /\ (ws[s].pc = "running" \/ ws[s].out # << >> \/ ws[s].got # << >>) => ws[s].frames # << >>

\* A client got the connected frame, then an update and an error frame.
C24_Witness ==
  \E s \in WsIds :
    /\ Len(ws[s].frames) = 3
    /\ ws[s].frames[2].type = "update"
    /\ ws[s].frames[3].type = "error"

\* ------------------------------------------------------------ C25
InvalidFrame(frame) == frame.type \in { "malformed", "unknown" }

\* C25: on a client text frame that is not a valid message the server hands
\* an error frame with a message to the socket, the session keeps running
\* with its bus subscription, and its filter is unchanged.
C25_InvalidStep ==
  \A s \in WsIds :
    (FrameStep(s) /\ InvalidFrame(ws'[s].last_in[1])) =>
      /\ ws'[s].frames = Append(ws[s].frames, ErrorFrame)
      /\ ErrorFrame.type = "error" /\ ErrorFrame.message # << >>
      /\ ws'[s].pc = "running"
      /\ s \in DOMAIN receivers' /\ receivers'[s] = receivers[s]
      /\ ws'[s].subscribed_devices = ws[s].subscribed_devices
      /\ ws'[s].out = ws[s].out

C25_InvalidFrameAnswered == [][C25_InvalidStep]_vars

\* A client subscribed to plc-001, then sent an invalid frame, and an update
\* for plc-001 was forwarded after the error frame.
C25_Witness ==
  \E s \in WsIds :
    /\ ws[s].pc = "running"
    /\ ws[s].frames_in = 2
    /\ InvalidFrame(ws[s].last_in[1])
    /\ ws[s].subscribed_devices = Some(<< "plc-001" >>)
    /\ Len(ws[s].frames) = 3
    /\ ws[s].frames[2].type = "error"
    /\ ws[s].frames[3].type = "update"

\* ------------------------------------------------------------ C26
\* The path is excluded: equal to a pattern, or a pattern ends with * and the
\* characters before that * are the first characters of the path.
ExcludedRef(config, path) ==
  \E i \in DOMAIN config.exclude_paths :
    LET p == config.exclude_paths[i]
    IN \/ p = path
       \/ /\ p # << >> /\ p[Len(p)] = "*"
          /\ \A j \in 1..(Len(p) - 1) : j <= Len(path) /\ path[j] = p[j]

\* The X-API-Key header is present and equals one of the configured keys.
KeyRef(config, request) ==
  /\ request.x_api_key # None
  /\ request.x_api_key[1].bytes \in { config.api_keys[i] : i \in DOMAIN config.api_keys }

\* C26: an answered request was forwarded to its handler if and only if auth
\* is disabled, or the path is excluded, or the X-API-Key header equals a
\* configured key; otherwise the answer is 401 with error "unauthorized".
C26_ForwardIff ==
  auth.pc = "answered" =>
    LET resp == auth.resp[1]
        allowed == \/ ~ auth.config.enabled
                   \/ ExcludedRef(auth.config, auth.request.path)
                   \/ KeyRef(auth.config, auth.request)
    IN /\ resp.next <=> allowed
       /\ ~ resp.next => resp.status = 401 /\ resp.error = "unauthorized"

\* With auth enabled, a request without a key was forwarded for a path under
\* a wildcard pattern.
C26_Witness ==
  /\ auth.pc = "answered"
  /\ auth.config.enabled
  /\ auth.config.exclude_paths = << << "/", "p", "/", "*" >> >>
  /\ auth.request.path = << "/", "p", "/" >>
  /\ auth.request.x_api_key = None
  /\ auth.resp[1].next

\* ------------------------------------------------------------ C27
DefaultScaling(config) == config.scale = None /\ config.offset = None

\* The 32-bit pattern hi:lo read as two's complement: non-negative below
\* 2^31, otherwise minus the complement of the pattern, minus one.
TwosComplement32(hi, lo) ==
  IF hi < 32768
    THEN hi * 65536 + lo
    ELSE - ((65535 - hi) * 65536 + (65535 - lo)) - 1

ShortRaw(config, raw) ==
  \/ Len(raw) = 0
  \/ config.data_type \in { "u32", "i32", "f32" } /\ Len(raw) < 2

\* C28 as stated: decoding a short raw sequence returns 0.0, for every data
\* type and every descriptor.
C28_ShortYieldsZero ==
  (decode.pc = "returned" /\ ShortRaw(decode.config, decode.raw)) =>
    decode.value = Some(0)

\* C28, amended: decoding a short raw sequence never fails and takes 0.0 as
\* the raw value, so the result is 0.0 * scale + offset: the configured
\* offset, and 0.0 when no offset is configured.
C28_ShortYieldsOffset ==
  /\ decode.pc = "called" => ENABLED ConvertValue
  /\ (decode.pc = "returned" /\ ShortRaw(decode.config, decode.raw)) =>
       /\ decode.value # None
       /\ decode.config.offset = None => decode.value[1] = 0
       /\ decode.config.offset # None => decode.value[1] = decode.config.offset[1]

\* One word was read for a scaled U32 with an offset: the result is the offset.
C28_Witness ==
  /\ decode.pc = "returned"
  /\ decode.config = make_register_config("u32", Some(10), Some(-40))
  /\ decode.raw = << 1 >>
  /\ decode.value = Some(-40)

\* ------------------------------------------------------------ C29
\* Device d's read of its current register returned the error e.
ReadFailedStep(d, e) ==
  /\ pollPc[d] = "read"
  /\ TaskOf(d)' # TaskOf(d)
  /\ lastRead'[d] = Some(e)

\* C29: a read that fails with a transport error leaves the session without
\* a connection (is_connected() is false) and ends the cycle: the next
\* register of the cycle is not read.
C29_TransportStep ==
  \A d \in DeviceIds :
    ReadFailedStep(d, "Modbus error: transport") =>
      /\ context'[d] = None
      /\ pollPc'[d] # "read"

C29_TransportErrorDisconnects == [][C29_TransportStep]_vars

\* ------------------------------------------------------------ C30
\* C30 (steps): after a read that fails with a Modbus exception the loop is at
\* the next register of the same cycle, or at the tick when the register
\* was the last; the session, the store and the cycle's successes are
\* untouched.
C30_ExceptionStep ==
  \A d \in DeviceIds :
    ReadFailedStep(d, "Modbus error: exception") =>
      /\ IF regIdx[d] < Len(RegistersOf(d))
           THEN pollPc'[d] = "read" /\ regIdx'[d] = regIdx[d] + 1
           ELSE pollPc'[d] = "tick"
      /\ context'[d] = context[d] /\ context[d] # None
      /\ store' = store /\ busLog' = busLog
      /\ cycleOk'[d] = cycleOk[d] /\ cycleSent'[d] = cycleSent[d]

\* C30 (states): a register the loop is at can still be read successfully
\* while the session has its connection, and every register read
\* successfully in the cycle is committed and published before the loop
\* moves past it, whatever failed before it.
C30_RestOfCycle ==
  \A d \in DeviceIds :
    /\ (pollPc[d] = "read" /\ context[d] # None) =>
         ENABLED (PollRead(d) /\ pollPc'[d] = "commit")
    /\ pollPc[d] = "commit" => (lockReaders = {} => ENABLED PollCommit(d))
    /\ pollPc[d] = "publish" => ENABLED PollPublish(d)
    /\ \A i \in cycleOk[d] :
         (pollPc[d] = "tick" \/ (pollPc[d] = "read" /\ i < regIdx[d])) =>
           /\ \E k \in DOMAIN cycleSent[d] : cycleSent[d][k] = RegistersOf(d)[i].name
           /\ d \in DOMAIN store /\ RegistersOf(d)[i].name \in DOMAIN store[d]

C30_ExceptionContinues == [] C30_RestOfCycle /\ [][C30_ExceptionStep]_vars

\* The read of plc-001's first register failed with a Modbus exception in a
\* cycle after one in which both registers were committed; the loop is at
\* the second register with its connection.
C30_Witness ==
  /\ lastRead["plc-001"] = Some("Modbus error: exception")
  /\ pollPc["plc-001"] = "read" /\ regIdx["plc-001"] = 2
  /\ context["plc-001"] # None
  /\ cycleOk["plc-001"] = {}
  /\ "plc-001" \in DOMAIN store /\ DOMAIN store["plc-001"] = { "temperature", "humidity" }

\* ------------------------------------------------------------ C31
\* A step of a REST read, of the REST write handler, of the write request
\* handler or of a WebSocket session.
NonPollStep ==
  \/ rest' # rest \/ writes' # writes \/ replies' # replies
  \/ writeQueue' # writeQueue \/ ws' # ws \/ receivers' # receivers

\* A poll loop's commit of the value it has just read.
CommitStep(d) ==
  /\ pollPc[d] = "commit" /\ pollPc'[d] = "publish"
  /\ store' = StoreInsert(store, d, regValue[d][1])

\* C31: every step of a REST read, the REST write handler, the write request
\* handler or a WebSocket session leaves the store as it is, the step that
\* acknowledges a write included; the store changes only in a poll loop's
\* commit of a value read from the device.
C31_StoreStep ==
  /\ NonPollStep => store' = store
  /\ store' # store => \E d \in DeviceIds : CommitStep(d)

C31_OnlyPollsChangeStore == [][C31_StoreStep]_vars

\* A write of 100 to plc-001's temperature was acknowledged with 200 while
\* the store held 250; a later poll has replaced the value by the word read.
C31_Witness ==
  /\ writes["post1"].pc = "done" /\ writes["post1"].resp.status = 200
  /\ writes["post1"].device_id = "plc-001"
  /\ writes["post1"].register_name = "temperature"
  /\ writes["post1"].value = 100
  /\ store["plc-001"]["temperature"].raw = << 65436 >>
  /\ ws["ws1"].out # << >>
  /\ rest["get1"].pc = "respond"

\* ------------------------------------------------------------ C32
\* The write request handler takes the request at the head of the queue.
ServeStep == writeRxOpen /\ writeQueue # << >> /\ writeQueue' # writeQueue /\ writes' = writes

\* C32 (steps): when the handler serves a request whose reply receiver was
\* dropped by a timed-out REST handler, the reply is discarded (nothing is
\* stored in the channel), the handler keeps write_rx and the requests
\* behind it stay queued.
C32_DroppedStep ==
  (ServeStep /\ replies[Head(writeQueue).response_tx].rx = "dropped") =>
    LET h == Head(writeQueue).response_tx
    IN /\ replies'[h].value = None /\ replies'[h].tx = "dropped"
       /\ writeRxOpen'
       /\ writeQueue' = Tail(writeQueue)
       /\ \A g \in ChannelIds \ { h } : replies'[g] = replies[g]

\* C32 (states): while the bridge runs the handler keeps write_rx and can
\* serve the request at the head of the queue.
C32_KeepsServing ==
  /\ writeRxOpen
  /\ writeQueue # << >> => ENABLED WriteRequestHandler

C32_ToleratesDroppedReceiver == [] C32_KeepsServing /\ [][C32_DroppedStep]_vars

\* post1 timed out with 504 and the reply to it was discarded; post2, queued
\* behind it, was answered 200.
C32_Witness ==
  /\ writes["post1"].pc = "done" /\ writes["post1"].resp.status = 504
  /\ replies["post1"].tx = "dropped" /\ replies["post1"].value = None
  /\ writes["post2"].pc = "done" /\ writes["post2"].resp.status = 200
  /\ writeRxOpen

\* ------------------------------------------------------------ C33
\* C33: a session whose send to the client blocks does not stay in that send
\* forever: the send completes or the session terminates, whatever the
\* client does.
C33_BlockedSendEnds ==
  \A s \in FilterIds : (ws[s].pc = "sending") ~> (ws[s].pc # "sending")

\* ------------------------------------------------------------ C35
\* The instant a published timestamp text stands for.
InstantOf(text) == text[2]

\* A step in which the store's entry for (d, n) is replaced.
Replaced(d, n) ==
  /\ d \in DOMAIN store /\ n \in DOMAIN store[d]
  /\ store'[d][n] # store[d][n]

C35_CommitStep ==
  \A d \in DeviceIds : \A n \in RegisterNames :
    Replaced(d, n) => store'[d][n].timestamp >= store[d][n].timestamp

C35_BusMonotone ==
  \A i, j \in DOMAIN busLog :
    (/\ i < j
     /\ busLog[i].device_id = busLog[j].device_id
     /\ busLog[i].register_name = busLog[j].register_name)
    => InstantOf(busLog[i].timestamp) <= InstantOf(busLog[j].timestamp)

DescriptorsOf(d, n) ==
  { RegistersOf(d)[i] : i \in { k \in DOMAIN RegistersOf(d) : RegistersOf(d)[k].name = n } }

\* The reading of the words by data type, for a read of the descriptor's
\* count: the word for U16, its two's complement for I16.
DecodedRaw(raw, descriptor) ==
  CASE descriptor.data_type = "u16" -> raw[1]
    [] descriptor.data_type = "i16" -> IF raw[1] >= 32768 THEN raw[1] - 65536 ELSE raw[1]

\* decode(raw, descriptor) * scale + offset, scale 1 and offset 0 when absent.
ScaledValue(raw, descriptor) ==
  LET scale == IF descriptor.scale = None THEN 1 ELSE descriptor.scale[1]
      offset == IF descriptor.offset = None THEN 0 ELSE descriptor.offset[1]
  IN DecodedRaw(raw, descriptor) * scale + offset

WellFormed(key, rv, descriptor) ==
  /\ rv.name = descriptor.name /\ rv.name = key
  /\ rv.raw \in ReadWords(descriptor)
  /\ rv.value = ScaledValue(rv.raw, descriptor)

C36_StoreWellFormed ==
  \A d \in DOMAIN store : \A n \in DOMAIN store[d] :
    \E descriptor \in DescriptorsOf(d, n) : WellFormed(n, store[d][n], descriptor)

\* A successful read builds the value from the words it returned and the
\* descriptor the loop is at; the commit stores that value under its name.
C36_PollStep ==
  \A d \in DeviceIds :
    /\ (pollPc[d] = "read" /\ pollPc'[d] = "commit") =>
          /\ lastRead'[d] = Some("")
          /\ WellFormed(CurrentRegister(d).name, regValue'[d][1], CurrentRegister(d))
    /\ (pollPc[d] = "commit" /\ pollPc'[d] = "publish") =>
          store'[d][CurrentRegister(d).name] = regValue[d][1]

\* C36: every RegisterValue a poll loop commits has value = decode(raw,
\* descriptor) * scale + offset for the descriptor of its register (scale 1
\* and offset 0 when absent), the descriptor's name as its name and as its
\* store key, and the words the read returned as raw.
C36_CommittedIsConverted == [] C36_StoreWellFormed /\ [][C36_PollStep]_vars

\* A poll committed a negative, scaled and shifted humidity and a plain
\* temperature.
C36_Witness ==
  /\ "plc-001" \in DOMAIN store
  /\ DOMAIN store["plc-001"] = { "temperature", "humidity" }
  /\ store["plc-001"]["humidity"].raw = << 65436 >>
  /\ store["plc-001"]["humidity"].value = -1040
  /\ store["plc-001"]["humidity"].timestamp = 1
  /\ store["plc-001"]["temperature"].value = 250

\* ------------------------------------------------------------ C37
\* The task of device d awaits client.read_registers: a read transaction of
\* d is in flight.
ReadInFlight(d) == pollPc[d] = "read"

WritesTo(ws_, d) == { w \in ws_ : w.device_id = d }

\* A step that issues a read of device d.
IssuesRead(d) ==
  /\ pollPc'[d] = "read"
  /\ pollPc[d] # "read" \/ regIdx'[d] # regIdx[d]

C37_Step ==
  \A d \in DeviceIds :
    /\ IssuesRead(d) =>
          \/ pollPc[d] = "tick" /\ regValue[d] = None /\ regIdx'[d] = 1
          \/ pollPc[d] \in { "read", "publish" } /\ regIdx'[d] = regIdx[d] + 1
    /\ ReadInFlight(d) => WritesTo(deviceWrites', d) = WritesTo(deviceWrites, d)

\* C37: reads of a device are issued one after another in configured order,
\* a cycle starts only after the previous one has finished, and no write is
\* issued to a device while a read of that device is in flight.
C37_OneTransactionPerDevice == [][C37_Step]_vars

\* While the read of plc-001's second register was in flight the handler
\* acknowledged a write request for plc-001 and no device write was issued.
C37_Witness ==
  /\ ReadInFlight("plc-001") /\ regIdx["plc-001"] = 2
  /\ writes["post1"].pc = "wait" /\ writes["post1"].device_id = "plc-001"
  /\ replies["post1"].value = Some(ResultOk)
  /\ deviceWrites = {}

\* ------------------------------------------------------------ C38
\* The store's entry for the update's key, if any.
StoredFor(update) ==
  IF /\ update.device_id \in DOMAIN store
     /\ update.register_name \in DOMAIN store[update.device_id]
    THEN Some(store[update.device_id][update.register_name])
    ELSE None

SameAs(update, rv) ==
  /\ rv.value = update.value /\ rv.raw = update.raw /\ rv.unit = update.unit
  /\ ToRfc3339(rv.timestamp) = update.timestamp

\* The store holds the update's value or one read no earlier.
SameOrNewer(update) ==
  /\ StoredFor(update) # None
  /\ \/ SameAs(update, StoredFor(update)[1])
     \/ StoredFor(update)[1].timestamp >= InstantOf(update.timestamp)

C38_Published ==
  /\ \A i \in DOMAIN busLog : SameOrNewer(busLog[i])
  /\ \A s \in WsIds : \A i \in DOMAIN ws[s].got :
       ws[s].got[i].kind = "msg" => SameOrNewer(ws[s].got[i].update[1])

\* At the step that publishes an update the store already holds exactly
\* that value.
C38_PublishStep ==
  busLog' # busLog =>
    /\ StoredFor(busLog'[Len(busLog')]) # None
    /\ SameAs(busLog'[Len(busLog')], StoredFor(busLog'[Len(busLog')])[1])

\* C38: the store commit precedes the publication: for every update
\* published on the bus, and every update a subscriber has received, the
\* store holds for that key the same value, raw, unit and timestamp, or a
\* newer one.
C38_CommitPrecedesPublication == [] C38_Published /\ [][C38_PublishStep]_vars

\* A session received an update of humidity and the store already holds a
\* newer value of it that is not yet published.
C38_Witness ==
  \E s \in WsIds : \E i \in DOMAIN ws[s].got :
    /\ ws[s].got[i].kind = "msg"
    /\ ws[s].got[i].update[1].register_name = "humidity"
    /\ store["plc-001"]["humidity"].timestamp > InstantOf(ws[s].got[i].update[1].timestamp)
    /\ pollPc["plc-001"] = "publish"

\* ------------------------------------------------------------ C39
\* The handler takes a request from the write queue.
TakeStep == Len(writeQueue') < Len(writeQueue)

\* A request is put on the write queue.
QueueStep == Len(writeQueue') > Len(writeQueue)

\* No channel but h changes in the step.
OnlyChannel(h) == \A g \in ChannelIds \ { h } : replies'[g] = replies[g]

\* Queued requests are unanswered and no two of them share a reply channel.
C39_QueuedUnanswered ==
  \A i \in DOMAIN writeQueue :
    /\ replies[writeQueue[i].response_tx].tx = "open"
    /\ replies[writeQueue[i].response_tx].value = None
    /\ \A j \in DOMAIN writeQueue :
         writeQueue[j].response_tx = writeQueue[i].response_tx => j = i

\* C39 as stated: every request taken from the queue receives its reply.
C39_EveryTakenReceivesReply ==
  [][ TakeStep => replies'[Head(writeQueue).response_tx].value = Some(ResultOk) ]_vars

C39_Step ==
  /\ QueueStep => SubSeq(writeQueue', 1, Len(writeQueue)) = writeQueue
  /\ TakeStep =>
       LET h == Head(writeQueue).response_tx IN
         /\ writeQueue' = Tail(writeQueue)
         /\ replies'[h].tx = "dropped"
         /\ replies'[h].value = IF replies[h].rx = "open" THEN Some(ResultOk) ELSE None
         /\ OnlyChannel(h)
  /\ \A h \in WriteIds :
       (writes[h].pc = "wait" /\ writes'[h].resp.status = 200) =>
         /\ replies[h].value = Some(ResultOk)
         /\ OnlyChannel(h)

\* C39, amended: the handler takes requests in the order they were queued
\* and sends exactly one reply for each, on the reply channel that came with
\* the request and on no other; the reply is received unless the requester
\* has timed out and dropped its receiver, in which case it is discarded.
C39_OneReplyInOrder == [] C39_QueuedUnanswered /\ [][C39_Step]_vars

\* post1 has its reply while post2 and post3 are queued, in that order.
C39_Witness ==
  /\ Len(writeQueue) = 2
  /\ writeQueue[1].response_tx = "post2" /\ writeQueue[2].response_tx = "post3"
  /\ replies["post1"].value = Some(ResultOk) /\ replies["post1"].tx = "dropped"
  /\ writes["post1"].pc = "wait"

\* ------------------------------------------------------------ C40
\* The REST write handler h waits for queue space or for its reply.
Waiting(h) == writes[h].pc \in { "send", "send_wait", "wait" }

\* C40: while a REST write waits for queue space or for its reply it holds
\* no lock on the store: a poll task at its commit can take the write lock
\* and commit, and a REST read can take the read lock.
C40_WaitHoldsNoLock ==
  \A h \in WriteIds : Waiting(h) =>
    /\ h \notin lockReaders
    /\ \A d \in PublisherIds : pollPc[d] = "commit" => ENABLED PollCommit(d)
    /\ \A g \in RestIds : ENABLED GetStart(g)

\* While post2 waits for room in the full queue and post1 for its reply,
\* the poll task has committed a new temperature.
C40_Witness ==
  /\ writes["post2"].pc = "send_wait" /\ writes["post1"].pc = "wait"
  /\ Len(writeQueue) = WRITE_QUEUE_DEPTH
  /\ pollPc["plc-001"] = "publish"
  /\ store["plc-001"]["temperature"].raw = << 65436 >>

====
